---- MODULE Spec2Model ----
(***************************************************************************)
(* zod-collection-ui: the affordance inference and resolution pipeline.    *)
(*                                                                         *)
(* defineCollection(schema, config) is a pure, synchronous function.  The  *)
(* state holds the inputs of one call (schema, config), the locals of      *)
(* every inferFieldAffordances call it makes (trace) and the collection    *)
(* definition it returns (collection).  The generators and the code        *)
(* generator are pure functions of a collection definition; the value the  *)
(* last of them returned is in output.  writeIfChanged is asynchronous:    *)
(* disk is the file system its calls share and calls holds, for each call  *)
(* in flight, its arguments, its position and its locals.                  *)
(* provider is the in-memory data provider (its items and nextId) with the *)
(* outcome of its last call, store the collection store's state with the   *)
(* action applied last, and hook the useCollection hook: its state, the    *)
(* key in prevParamsRef and the getList calls it started.                  *)
(*                                                                         *)
(* Encodings.                                                              *)
(*  - A JavaScript value is a record [k, s, n, q, o]: k is its kind        *)
(*    (bool, str, num, text, arr, obj, undefined, null), s a token, n a    *)
(*    number, q the characters of a string that is looked into, o the      *)
(*    properties of an object.                                             *)
(*  - A JavaScript object with optional properties is a function whose     *)
(*    DOMAIN is the set of properties that are present; a property that is *)
(*    present with the value undefined is in the DOMAIN, mapped to Undef.  *)
(*  - A field key is the sequence of its characters.                       *)
(*  - An item of a provider is a function from the names of its fields to  *)
(*    their values; a sort column or a filter names a field by that name.  *)
(*  - A schema node is [wrappers, terminal, meta]: the chain of            *)
(*    optional/nullable/default wrapper defs, outermost first, around the  *)
(*    terminal node's _zod.def, and the .meta() registered for the node.   *)
(***************************************************************************)
EXTENDS Integers, Sequences, FiniteSets, TLC

VARIABLES pc, schema, config, trace, collection, output, disk, calls,
          provider, store, hook

vars == <<pc, schema, config, trace, collection, output, disk, calls,
         provider, store, hook>>

----------------------------------------------------------------------------
(* JavaScript values *)

Val(kind, tok) == [k |-> kind, s |-> tok, n |-> 0, q |-> <<>>, o |-> <<>>]

True == Val("bool", "true")

False == Val("bool", "false")

Undef == Val("undefined", "")

Null == Val("null", "")

Str(tok) == Val("str", tok)

Num(i) == [k |-> "num", s |-> "", n |-> i, q |-> <<>>, o |-> <<>>]

Text(chars) == [k |-> "text", s |-> "", n |-> 0, q |-> chars, o |-> <<>>]

Arr(tok) == Val("arr", tok)

Obj(props) == [k |-> "obj", s |-> "", n |-> 0, q |-> <<>>, o |-> props]

\* x ?? y takes y exactly when x is null or undefined
Nullish(v) == v.k \in {"undefined", "null"}

\* !x
Falsy(v) ==
  \/ Nullish(v)
  \/ v = False
  \/ v.k = "num" /\ v.n = 0
  \/ v.k = "str" /\ v.s = ""
  \/ v.k = "text" /\ v.q = <<>>

\* obj.p: undefined when the property is absent
Get(obj, p) == IF p \in DOMAIN obj THEN obj[p] ELSE Undef

\* { ...a, ...b }
Merge(a, b) ==
  [p \in (DOMAIN a) \cup (DOMAIN b) |-> IF p \in DOMAIN b THEN b[p] ELSE a[p]]

\* obj.p = v
Put(obj, p, v) == [x \in (DOMAIN obj) \cup {p} |-> IF x = p THEN v ELSE obj[x]]

----------------------------------------------------------------------------
(* Characters, as the regular expressions of the source classify them *)

LowerAlpha ==
  << "a", "b", "c", "d", "e", "f", "g", "h", "i", "j", "k", "l", "m",
     "n", "o", "p", "q", "r", "s", "t", "u", "v", "w", "x", "y", "z" >>

UpperAlpha ==
  << "A", "B", "C", "D", "E", "F", "G", "H", "I", "J", "K", "L", "M",
     "N", "O", "P", "Q", "R", "S", "T", "U", "V", "W", "X", "Y", "Z" >>

LowerChars == {LowerAlpha[i] : i \in 1..Len(LowerAlpha)}

UpperChars == {UpperAlpha[i] : i \in 1..Len(UpperAlpha)}

\* c.toUpperCase() of a lower-case letter, and its inverse
UpperOf == [c \in LowerChars |-> UpperAlpha[CHOOSE i \in 1..Len(LowerAlpha) : LowerAlpha[i] = c]]

LowerOf == [c \in UpperChars |-> LowerAlpha[CHOOSE i \in 1..Len(UpperAlpha) : UpperAlpha[i] = c]]

\* [a-z]
IsLower(c) == c \in LowerChars

\* [A-Z]
IsUpper(c) == c \in UpperChars

IsDigit(c) == c \in {"0", "1", "2", "3", "4", "5", "6", "7", "8", "9"}

\* \w
IsWordChar(c) == IsLower(c) \/ IsUpper(c) \/ IsDigit(c) \/ c = "_"

ToUpper(c) == IF IsLower(c) THEN UpperOf[c] ELSE c

ToLower(c) == IF IsUpper(c) THEN LowerOf[c] ELSE c

\* the key as an /i pattern sees it
LowerCase(key) == [i \in 1..Len(key) |-> ToLower(key[i])]

\* key.endsWith(suffix), and a pattern anchored by $ only
EndsWith(key, suffix) ==
  /\ Len(suffix) <= Len(key)
  /\ SubSeq(key, Len(key) - Len(suffix) + 1, Len(key)) = suffix

----------------------------------------------------------------------------
(* humanizeFieldName *)

\* .replace(/([a-z])([A-Z])/g, '$1 $2')
RECURSIVE CamelSplit(_)
CamelSplit(s) ==
  IF Len(s) <= 1 THEN s
  ELSE IF IsLower(s[1]) /\ IsUpper(s[2])
       THEN <<s[1], " ">> \o CamelSplit(Tail(s))
       ELSE <<s[1]>> \o CamelSplit(Tail(s))

\* the rest of s after its leading run of _ and -
RECURSIVE DropSeparators(_)
DropSeparators(s) ==
  IF s # <<>> /\ s[1] \in {"_", "-"} THEN DropSeparators(Tail(s)) ELSE s

\* .replace(/[_-]+/g, ' ')
RECURSIVE SeparatorsToSpace(_)
SeparatorsToSpace(s) ==
  IF s = <<>> THEN <<>>
  ELSE IF s[1] \in {"_", "-"}
       THEN <<" ">> \o SeparatorsToSpace(DropSeparators(s))
       ELSE <<s[1]>> \o SeparatorsToSpace(Tail(s))

\* .replace(/\b\w/g, (c) => c.toUpperCase())
CapitalizeWords(s) ==
  [i \in 1..Len(s) |->
     IF IsWordChar(s[i]) /\ (i = 1 \/ ~IsWordChar(s[i - 1])) THEN ToUpper(s[i]) ELSE s[i]]

\* .trim()
RECURSIVE TrimLeft(_)
TrimLeft(s) == IF s # <<>> /\ s[1] = " " THEN TrimLeft(Tail(s)) ELSE s

RECURSIVE TrimRight(_)
TrimRight(s) ==
  IF s # <<>> /\ s[Len(s)] = " " THEN TrimRight(SubSeq(s, 1, Len(s) - 1)) ELSE s

Trim(s) == TrimRight(TrimLeft(s))

humanizeFieldName(key) ==
  Text(Trim(CapitalizeWords(SeparatorsToSpace(CamelSplit(key)))))

----------------------------------------------------------------------------
(* Schema introspection *)

WrapperTypes == {"optional", "nullable", "default"}

\* def.innerType of a wrapper node
InnerType(node) ==
  [wrappers |-> Tail(node.wrappers), terminal |-> node.terminal, meta |-> node.meta]

\* a getZodBaseType that reads the type of def.innerType instead of recursing
getZodBaseTypeOneLevel(node) ==
  LET terminalType ==
        IF ~node.terminal.hasDef \/ node.terminal.type = "undefined" THEN "unknown"
        ELSE node.terminal.type
  IN  IF Len(node.wrappers) >= 2 THEN node.wrappers[2] ELSE terminalType

\* getZodBaseType: a node without _zod.def is 'unknown'; a wrapper def is
\* unwrapped; any other def gives def.type ?? 'unknown'
RECURSIVE getZodBaseType(_)
getZodBaseType(node) ==
  IF node.wrappers # <<>>
  THEN IF Head(node.wrappers) \in WrapperTypes
       THEN getZodBaseType(InnerType(node))
       ELSE Head(node.wrappers)
  ELSE IF ~node.terminal.hasDef THEN "unknown"
       ELSE IF node.terminal.type = "undefined" THEN "unknown"
       ELSE node.terminal.type

\* unwrapZodSchema, then its _zod?.def
RECURSIVE unwrapZodSchema(_)
unwrapZodSchema(node) ==
  IF node.wrappers # <<>> /\ Head(node.wrappers) \in WrapperTypes
  THEN unwrapZodSchema(InnerType(node))
  ELSE node

\* getZodMeta: schema.meta?.() ?? undefined
getZodMeta(node) == IF node.meta.has THEN Obj(node.meta.m) ELSE Undef

----------------------------------------------------------------------------
(* Layer 1: type defaults *)

STRING_FIELD_DEFAULTS ==
  [sortable |-> Str("both"), filterable |-> Str("search"), searchable |-> True,
   groupable |-> False, editable |-> True, visible |-> True]

NUMBER_FIELD_DEFAULTS ==
  [sortable |-> Str("both"), filterable |-> Str("range"), searchable |-> False,
   groupable |-> False, editable |-> True, visible |-> True,
   aggregatable |-> Arr("sum,avg,min,max")]

BOOLEAN_FIELD_DEFAULTS ==
  [sortable |-> Str("both"), filterable |-> Str("boolean"), searchable |-> False,
   groupable |-> True, editable |-> True, visible |-> True]

ENUM_FIELD_DEFAULTS ==
  [sortable |-> Str("both"), filterable |-> Str("select"), searchable |-> False,
   groupable |-> True, editable |-> True, visible |-> True]

DATE_FIELD_DEFAULTS ==
  [sortable |-> Str("both"), filterable |-> Str("range"), searchable |-> False,
   groupable |-> False, editable |-> True, visible |-> True]

ARRAY_FIELD_DEFAULTS ==
  [sortable |-> False, filterable |-> Str("contains"), searchable |-> False,
   groupable |-> False, editable |-> True, visible |-> True]

OBJECT_FIELD_DEFAULTS ==
  [sortable |-> False, filterable |-> False, searchable |-> False,
   groupable |-> False, editable |-> True, visible |-> True, detailOnly |-> True]

UNKNOWN_FIELD_DEFAULTS ==
  [sortable |-> False, filterable |-> False, searchable |-> False,
   groupable |-> False, editable |-> False, visible |-> True]

\* a getTypeDefaults whose default case falls back to the string defaults
getTypeDefaultsStringFallback(zodType) ==
  CASE zodType \in {"number", "int", "float", "bigint"} -> NUMBER_FIELD_DEFAULTS
    [] zodType = "boolean" -> BOOLEAN_FIELD_DEFAULTS
    [] zodType \in {"enum", "nativeEnum"} -> ENUM_FIELD_DEFAULTS
    [] zodType = "date" -> DATE_FIELD_DEFAULTS
    [] zodType \in {"array", "set", "tuple"} -> ARRAY_FIELD_DEFAULTS
    [] zodType \in {"object", "record", "map"} -> OBJECT_FIELD_DEFAULTS
    [] OTHER -> STRING_FIELD_DEFAULTS

getTypeDefaults(zodType) ==
  CASE zodType = "string" -> STRING_FIELD_DEFAULTS
    [] zodType \in {"number", "int", "float", "bigint"} -> NUMBER_FIELD_DEFAULTS
    [] zodType = "boolean" -> BOOLEAN_FIELD_DEFAULTS
    [] zodType \in {"enum", "nativeEnum"} -> ENUM_FIELD_DEFAULTS
    [] zodType = "date" -> DATE_FIELD_DEFAULTS
    [] zodType \in {"array", "set", "tuple"} -> ARRAY_FIELD_DEFAULTS
    [] zodType \in {"object", "record", "map"} -> OBJECT_FIELD_DEFAULTS
    [] OTHER -> UNKNOWN_FIELD_DEFAULTS

----------------------------------------------------------------------------
(* Layer 2: validation refinements *)

\* a loop body that also takes sorting away from an identifier
ApplyCheckUnsortable(refined, kind) ==
  IF kind \in {"uuid", "ulid", "cuid"}
  THEN Put(Put(Put(Put(refined, "editable", False), "filterable", Str("exact")),
               "searchable", False), "sortable", Str("none"))
  ELSE refined

\* the body of the loop over def.checks, for one check
ApplyCheck(refined, kind) ==
  LET a == IF kind = "email"
           THEN Put(Put(refined, "editWidget", Str("email")), "filterable", Str("search"))
           ELSE refined
      b == IF kind \in {"url", "uri"}
           THEN Put(Put(Put(a, "editWidget", Str("url")), "searchable", False),
                    "filterable", Str("exact"))
           ELSE a
      c == IF kind \in {"uuid", "ulid", "cuid"}
           THEN Put(Put(Put(b, "editable", False), "filterable", Str("exact")),
                    "searchable", False)
           ELSE b
  IN  c

\* for (const check of def.checks)
RECURSIVE ApplyChecks(_, _)
ApplyChecks(refined, checks) ==
  IF checks = <<>> THEN refined
  ELSE ApplyChecks(ApplyCheck(refined, Head(checks)), Tail(checks))

\* the def.format tests that follow the loop
ApplyFormat(refined, format) ==
  LET a == IF format = "email" THEN Put(refined, "editWidget", Str("email")) ELSE refined
      b == IF format \in {"uri", "url"}
           THEN Put(Put(a, "editWidget", Str("url")), "searchable", False)
           ELSE a
      c == IF format = "uuid"
           THEN Put(Put(Put(b, "editable", False), "filterable", Str("exact")),
                    "searchable", False)
           ELSE b
  IN  c

refineByValidations(node, defaults) ==
  LET def == unwrapZodSchema(node).terminal
      afterString ==
        IF def.type = "string"
        THEN ApplyFormat(IF def.hasChecks THEN ApplyChecks(defaults, def.checks)
                         ELSE defaults, def.format)
        ELSE defaults
  IN  IF ~def.hasDef THEN defaults
      ELSE IF def.type = "boolean" /\ def.hasDefaultValue
           THEN Put(afterString, "editWidget", Str("switch"))
           ELSE afterString

----------------------------------------------------------------------------
(* Layer 3: name heuristics.  An anchored /^(a|b)$/i pattern is the set of *)
(* the lower-case words it accepts; x_?y accepts xy and x_y.               *)

ID_PATTERNS ==
  { <<"i", "d">>, <<"_", "i", "d">>,
    <<"u", "u", "i", "d">>, <<"u", "i", "d">>,
    <<"k", "e", "y">>, <<"p", "k">> }

ID_SUFFIX_PATTERNS ==
  { <<"_", "i", "d">>, <<"I", "d">>,
    <<"I", "D">>, <<"_", "k", "e", "y">>,
    <<"K", "e", "y">> }

CREATED_PATTERNS ==
  { <<"c", "r", "e", "a", "t", "e", "d", "a", "t">>, <<"c", "r", "e", "a", "t", "e", "d", "_", "a", "t">>,
    <<"c", "r", "e", "a", "t", "i", "o", "n", "d", "a", "t", "e">>, <<"c", "r", "e", "a", "t", "i", "o", "n", "_", "d", "a", "t", "e">>,
    <<"d", "a", "t", "e", "c", "r", "e", "a", "t", "e", "d">>, <<"d", "a", "t", "e", "_", "c", "r", "e", "a", "t", "e", "d">>,
    <<"c", "t", "i", "m", "e">> }

UPDATED_PATTERNS ==
  { <<"u", "p", "d", "a", "t", "e", "d", "a", "t">>, <<"u", "p", "d", "a", "t", "e", "d", "_", "a", "t">>,
    <<"m", "o", "d", "i", "f", "i", "e", "d", "a", "t">>, <<"m", "o", "d", "i", "f", "i", "e", "d", "_", "a", "t">>,
    <<"l", "a", "s", "t", "m", "o", "d", "i", "f", "i", "e", "d">>, <<"l", "a", "s", "t", "_", "m", "o", "d", "i", "f", "i", "e", "d">>,
    <<"m", "t", "i", "m", "e">>, <<"c", "h", "a", "n", "g", "e", "d", "a", "t">>,
    <<"c", "h", "a", "n", "g", "e", "d", "_", "a", "t">> }

DELETED_PATTERNS ==
  { <<"d", "e", "l", "e", "t", "e", "d", "a", "t">>, <<"d", "e", "l", "e", "t", "e", "d", "_", "a", "t">>,
    <<"r", "e", "m", "o", "v", "e", "d", "a", "t">>, <<"r", "e", "m", "o", "v", "e", "d", "_", "a", "t">> }

SECRET_PATTERNS ==
  { <<"p", "a", "s", "s", "w", "o", "r", "d">>, <<"s", "e", "c", "r", "e", "t">>,
    <<"t", "o", "k", "e", "n">>, <<"a", "p", "i", "k", "e", "y">>,
    <<"a", "p", "i", "_", "k", "e", "y">>, <<"a", "c", "c", "e", "s", "s", "k", "e", "y">>,
    <<"a", "c", "c", "e", "s", "s", "_", "k", "e", "y">>, <<"p", "r", "i", "v", "a", "t", "e", "k", "e", "y">>,
    <<"p", "r", "i", "v", "a", "t", "e", "_", "k", "e", "y">>, <<"h", "a", "s", "h">>,
    <<"s", "a", "l", "t">> }

EMAIL_PATTERNS ==
  { <<"e", "m", "a", "i", "l">>, <<"e", "_", "m", "a", "i", "l">> }

NAME_PATTERNS ==
  { <<"n", "a", "m", "e">>, <<"t", "i", "t", "l", "e">>,
    <<"l", "a", "b", "e", "l">>, <<"d", "i", "s", "p", "l", "a", "y", "n", "a", "m", "e">>,
    <<"d", "i", "s", "p", "l", "a", "y", "_", "n", "a", "m", "e">>, <<"f", "u", "l", "l", "n", "a", "m", "e">>,
    <<"f", "u", "l", "l", "_", "n", "a", "m", "e">>, <<"u", "s", "e", "r", "n", "a", "m", "e">> }

DESCRIPTION_PATTERNS ==
  { <<"d", "e", "s", "c", "r", "i", "p", "t", "i", "o", "n">>, <<"s", "u", "m", "m", "a", "r", "y">>,
    <<"b", "o", "d", "y">>, <<"c", "o", "n", "t", "e", "n", "t">>,
    <<"t", "e", "x", "t">>, <<"b", "i", "o">>,
    <<"a", "b", "o", "u", "t">>, <<"n", "o", "t", "e", "s">> }

IMAGE_STEMS ==
  { <<"i", "m", "a", "g", "e">>, <<"p", "h", "o", "t", "o">>,
    <<"a", "v", "a", "t", "a", "r">>, <<"t", "h", "u", "m", "b", "n", "a", "i", "l">>,
    <<"p", "i", "c", "t", "u", "r", "e">>, <<"i", "c", "o", "n">>,
    <<"l", "o", "g", "o">> }

IMAGE_SUFFIXES ==
  { <<>>, <<"u", "r", "l">>,
    <<"_", "u", "r", "l">> }

\* (stem)(_?url)?
IMAGE_PATTERNS == {stem \o suffix : stem \in IMAGE_STEMS, suffix \in IMAGE_SUFFIXES}

STATUS_PATTERNS ==
  { <<"s", "t", "a", "t", "u", "s">>, <<"s", "t", "a", "t", "e">>,
    <<"p", "h", "a", "s", "e">>, <<"s", "t", "a", "g", "e">> }

\* pattern.test(key), one entry for each if of refineByFieldName
HeuristicMatches(h, key) ==
  CASE h = "id" ->
         \/ LowerCase(key) \in ID_PATTERNS
         \/ \E suffix \in ID_SUFFIX_PATTERNS : EndsWith(key, suffix)
    [] h = "created" -> LowerCase(key) \in CREATED_PATTERNS
    [] h = "updated" -> LowerCase(key) \in UPDATED_PATTERNS
    [] h = "deleted" -> LowerCase(key) \in DELETED_PATTERNS
    [] h = "secret" -> LowerCase(key) \in SECRET_PATTERNS
    [] h = "email" -> LowerCase(key) \in EMAIL_PATTERNS
    [] h = "name" -> LowerCase(key) \in NAME_PATTERNS
    [] h = "description" -> LowerCase(key) \in DESCRIPTION_PATTERNS
    [] h = "image" -> LowerCase(key) \in IMAGE_PATTERNS
    [] h = "status" -> LowerCase(key) \in STATUS_PATTERNS

\* the body of each if of refineByFieldName
ApplyHeuristic(h, key, refined) ==
  CASE h = "id" ->
         Put(Put(Put(Put(refined, "editable", False),
                     "visible", IF key = <<"i", "d">> THEN False ELSE Get(refined, "visible")),
                 "filterable", Str("exact")),
             "searchable", False)
    [] h = "created" ->
         Put(Put(Put(refined, "editable", False), "sortable", Str("both")),
             "filterable", Str("range"))
    [] h = "updated" ->
         Put(Put(Put(refined, "editable", False), "visible", False), "sortable", Str("both"))
    [] h = "deleted" ->
         Put(Put(refined, "editable", False), "visible", False)
    [] h = "secret" ->
         Put(Put(Put(Put(Put(refined, "readable", False), "searchable", False),
                     "sortable", False),
                 "filterable", False),
             "visible", False)
    [] h = "email" ->
         Put(Put(Put(refined, "editWidget",
                     IF Nullish(Get(refined, "editWidget")) THEN Str("email")
                     ELSE Get(refined, "editWidget")),
                 "filterable", Str("search")),
             "searchable", True)
    [] h = "name" ->
         Put(Put(Put(refined, "searchable", True), "summaryField", True),
             "sortable", Str("both"))
    [] h = "description" ->
         Put(Put(Put(Put(refined, "editWidget",
                         IF Nullish(Get(refined, "editWidget")) THEN Str("textarea")
                         ELSE Get(refined, "editWidget")),
                     "truncate",
                     IF Nullish(Get(refined, "truncate")) THEN Num(100)
                     ELSE Get(refined, "truncate")),
                 "tooltip", True),
             "sortable", False)
    [] h = "image" ->
         Put(Put(Put(refined, "sortable", False), "filterable", False), "searchable", False)
    [] h = "status" ->
         Put(Put(refined, "groupable", True), "filterable", Str("select"))

\* the heuristics with the secret test moved ahead of the identifier test
HeuristicOrderSecretFirst ==
  << "secret", "id", "created", "updated", "deleted",
     "email", "name", "description", "image", "status" >>

\* the order in which refineByFieldName lists its heuristics
HeuristicOrder ==
  << "id", "created", "updated", "deleted", "secret",
     "email", "name", "description", "image", "status" >>

RECURSIVE ApplyHeuristics(_, _, _)
ApplyHeuristics(order, key, refined) ==
  IF order = <<>> THEN refined
  ELSE ApplyHeuristics(Tail(order), key,
                       IF HeuristicMatches(Head(order), key)
                       THEN ApplyHeuristic(Head(order), key, refined)
                       ELSE refined)

refineByFieldName(key, defaults) == ApplyHeuristics(HeuristicOrder, key, defaults)

----------------------------------------------------------------------------
(* Layer 4: .meta() annotations, and inferFieldAffordances *)

affordanceKeys ==
  { "sortable", "filterable", "searchable", "groupable", "aggregatable",
    "readable", "editable", "inlineEditable", "requiredOnCreate", "requiredOnUpdate",
    "immutableAfterCreate", "visible", "hidden", "detailOnly", "summaryField",
    "columnWidth", "minWidth", "maxWidth", "resizable", "pinned", "order",
    "title", "description", "displayFormat", "badge", "copyable", "truncate",
    "tooltip", "editWidget", "editPlaceholder", "editHelp" }

\* if (meta.p && !result.p) result.p = meta.p
MapStandardMeta(meta, result, p) ==
  IF ~Falsy(Get(meta, p)) /\ Falsy(Get(result, p)) THEN Put(result, p, meta[p]) ELSE result

extractAffordancesFromMeta(meta) ==
  LET direct == [p \in affordanceKeys \cap DOMAIN meta |-> meta[p]]
      nested == IF Get(meta, "affordances").k = "obj"
                THEN Merge(direct, meta["affordances"].o)
                ELSE direct
  IN  MapStandardMeta(meta, MapStandardMeta(meta, nested, "title"), "description")

\* the value of the local `affordances` after each layer of inferFieldAffordances,
\* and what the function returns
InferLayers(key, node) ==
  LET l1 == getTypeDefaults(getZodBaseType(node))
      l2 == refineByValidations(node, l1)
      l3 == refineByFieldName(key, l2)
      meta == getZodMeta(node)
      l4 == IF ~Falsy(meta) THEN Merge(l3, extractAffordancesFromMeta(meta.o)) ELSE l3
  IN  [key |-> key, l1 |-> l1, l2 |-> l2, l3 |-> l3, l4 |-> l4,
       inferred |-> IF Falsy(Get(l4, "title"))
                    THEN Put(l4, "title", humanizeFieldName(key))
                    ELSE l4]

inferFieldAffordances(key, node) == InferLayers(key, node).inferred

----------------------------------------------------------------------------
(* resolveAllFieldAffordances *)

\* explicit?.[key] ?? {}
ExplicitOverrides(explicit, key) ==
  IF Nullish(explicit) THEN <<>>
  ELSE IF key \notin DOMAIN explicit.o THEN <<>>
  ELSE IF Nullish(explicit.o[key]) THEN <<>>
  ELSE explicit.o[key].o

\* a loop body that spreads the inferred record over the overrides
ResolveFieldInferredLast(key, node, explicit) ==
  LET merged == Merge(ExplicitOverrides(explicit, key), inferFieldAffordances(key, node))
  IN  Put(Put(merged, "title",
              IF Nullish(Get(merged, "title")) THEN humanizeFieldName(key)
              ELSE merged["title"]),
          "zodType", Str(getZodBaseType(node)))

\* the body of the loop: one entry of the result
ResolveField(key, node, explicit) ==
  LET merged == Merge(inferFieldAffordances(key, node), ExplicitOverrides(explicit, key))
  IN  Put(Put(merged, "title",
              IF Nullish(Get(merged, "title")) THEN humanizeFieldName(key)
              ELSE merged["title"]),
          "zodType", Str(getZodBaseType(node)))

\* the elements of a finite set, in some order
RECURSIVE SeqOf(_)
SeqOf(set) ==
  IF set = {} THEN <<>>
  ELSE LET x == CHOOSE y \in set : TRUE IN <<x>> \o SeqOf(set \ {x})

\* a loop that also makes an entry for every key of config.fields that the
\* shape lacks
resolveAllFieldAffordancesAnyKey(shape, explicit) ==
  LET extra == IF Nullish(explicit) THEN <<>>
               ELSE SeqOf(DOMAIN explicit.o \ {shape[i].key : i \in 1..Len(shape)})
  IN  [i \in 1..Len(shape) |->
         [key |-> shape[i].key, fa |-> ResolveField(shape[i].key, shape[i].node, explicit)]]
      \o [i \in 1..Len(extra) |->
            [key |-> extra[i],
             fa |-> Put(Put(explicit.o[extra[i]].o, "title", humanizeFieldName(extra[i])),
                        "zodType", Str("unknown"))]]

\* the loop over Object.entries(shape): one entry for each schema field, in the
\* order of the shape
resolveAllFieldAffordances(shape, explicit) ==
  [i \in 1..Len(shape) |->
     [key |-> shape[i].key, fa |-> ResolveField(shape[i].key, shape[i].node, explicit)]]

----------------------------------------------------------------------------
(* resolveCollectionAffordances *)

DEFAULT_PAGINATION ==
  [defaultPageSize |-> Num(25), pageSizeOptions |-> Arr("10,25,50,100"),
   style |-> Str("pages"), serverSide |-> False]

DEFAULT_SEARCH ==
  [debounce |-> Num(300), minChars |-> Num(1), highlight |-> False,
   placeholder |-> Str("Search...")]

DEFAULT_COLLECTION_AFFORDANCES ==
  [create |-> True, read |-> True, update |-> True, delete |-> True,
   bulkDelete |-> False, bulkEdit |-> False, search |-> True,
   pagination |-> Obj(DEFAULT_PAGINATION),
   multiSort |-> True, filterPanel |-> True, selectable |-> Str("multi"),
   columnVisibility |-> True, columnOrder |-> True, columnResize |-> True,
   refresh |-> True, defaultView |-> Str("table"), views |-> Arr("table")]

\* a normalization that spreads the defaults over the caller's object
NormalizeShorthandDefaultsLast(v, defaults) ==
  IF v = True THEN Obj(defaults)
  ELSE IF ~Falsy(v) /\ v.k = "obj" THEN Obj(Merge(v.o, defaults))
  ELSE v

\* if (v === true) v = { ...defaults }
\* else if (v && typeof v === 'object') v = { ...defaults, ...v }
NormalizeShorthand(v, defaults) ==
  IF v = True THEN Obj(defaults)
  ELSE IF ~Falsy(v) /\ v.k = "obj" THEN Obj(Merge(defaults, v.o))
  ELSE v

resolveCollectionAffordances(explicit) ==
  LET merged == Merge(DEFAULT_COLLECTION_AFFORDANCES,
                      IF Nullish(explicit) THEN <<>> ELSE explicit.o)
      paginated == Put(merged, "pagination",
                       NormalizeShorthand(merged["pagination"], DEFAULT_PAGINATION))
  IN  Put(paginated, "search", NormalizeShorthand(paginated["search"], DEFAULT_SEARCH))

----------------------------------------------------------------------------
(* Identity detection *)

ShapeKeys(shape) == {shape[i].key : i \in 1..Len(shape)}

\* the least element of a non-empty set of indexes
MinIndex(indexes) == CHOOSE i \in indexes : \A j \in indexes : i <= j

\* /[iI]d$/.test(key) || key.endsWith('_id')
IdSuffixTest(key) ==
  \/ EndsWith(key, <<"i", "d">>)
  \/ EndsWith(key, <<"I", "d">>)
  \/ EndsWith(key, <<"_", "i", "d">>)

\* a detection that looks for the suffix before the exact names
detectIdFieldSuffixFirst(shape) ==
  LET bySuffix == {i \in 1..Len(shape) : IdSuffixTest(shape[i].key)}
  IN  IF bySuffix # {} THEN shape[MinIndex(bySuffix)].key
      ELSE IF <<"i", "d">> \in ShapeKeys(shape) THEN <<"i", "d">>
      ELSE IF <<"_", "i", "d">> \in ShapeKeys(shape) THEN <<"_", "i", "d">>
      ELSE IF <<"u", "u", "i", "d">> \in ShapeKeys(shape) THEN <<"u", "u", "i", "d">>
      ELSE IF <<"k", "e", "y">> \in ShapeKeys(shape) THEN <<"k", "e", "y">>
      ELSE IF shape # <<>> THEN shape[1].key
      ELSE <<"i", "d">>

detectIdField(shape) ==
  LET bySuffix == {i \in 1..Len(shape) : IdSuffixTest(shape[i].key)}
  IN  IF <<"i", "d">> \in ShapeKeys(shape) THEN <<"i", "d">>
      ELSE IF <<"_", "i", "d">> \in ShapeKeys(shape) THEN <<"_", "i", "d">>
      ELSE IF <<"u", "u", "i", "d">> \in ShapeKeys(shape) THEN <<"u", "u", "i", "d">>
      ELSE IF <<"k", "e", "y">> \in ShapeKeys(shape) THEN <<"k", "e", "y">>
      ELSE IF bySuffix # {} THEN shape[MinIndex(bySuffix)].key
      ELSE IF shape # <<>> THEN shape[1].key
      ELSE <<"i", "d">>

labelNames ==
  << <<"n", "a", "m", "e">>, <<"t", "i", "t", "l", "e">>, <<"l", "a", "b", "e", "l">>,
     <<"d", "i", "s", "p", "l", "a", "y", "N", "a", "m", "e">>,
     <<"d", "i", "s", "p", "l", "a", "y", "_", "n", "a", "m", "e">>,
     <<"u", "s", "e", "r", "n", "a", "m", "e">> >>

\* a detection that looks at the common label names before the summaryField flag
detectLabelFieldNamesFirst(fieldAffordances) ==
  LET IsSummary(fa) == ~Falsy(Get(fa, "summaryField"))
      IsEditableString(fa) == fa["zodType"] = Str("string") /\ Get(fa, "editable") # False
      keys == {fieldAffordances[i].key : i \in 1..Len(fieldAffordances)}
      bySummary == {i \in 1..Len(fieldAffordances) : IsSummary(fieldAffordances[i].fa)}
      named == SelectSeq(labelNames, LAMBDA name : name \in keys)
      byString == {i \in 1..Len(fieldAffordances) : IsEditableString(fieldAffordances[i].fa)}
  IN  IF named # <<>> THEN named[1]
      ELSE IF bySummary # {} THEN fieldAffordances[MinIndex(bySummary)].key
      ELSE IF byString # {} THEN fieldAffordances[MinIndex(byString)].key
      ELSE IF fieldAffordances # <<>> THEN fieldAffordances[1].key
      ELSE <<>>

detectLabelField(fieldAffordances) ==
  LET IsSummary(fa) == ~Falsy(Get(fa, "summaryField"))
      IsEditableString(fa) == fa["zodType"] = Str("string") /\ Get(fa, "editable") # False
      keys == {fieldAffordances[i].key : i \in 1..Len(fieldAffordances)}
      bySummary == {i \in 1..Len(fieldAffordances) : IsSummary(fieldAffordances[i].fa)}
      named == SelectSeq(labelNames, LAMBDA name : name \in keys)
      byString == {i \in 1..Len(fieldAffordances) : IsEditableString(fieldAffordances[i].fa)}
  IN  IF bySummary # {} THEN fieldAffordances[MinIndex(bySummary)].key
      ELSE IF named # <<>> THEN named[1]
      ELSE IF byString # {} THEN fieldAffordances[MinIndex(byString)].key
      ELSE IF fieldAffordances # <<>> THEN fieldAffordances[1].key
      ELSE <<>>

----------------------------------------------------------------------------
(* defineCollection *)

defineCollection(shape, cfg) ==
  LET fieldAffordances == resolveAllFieldAffordances(shape, Get(cfg, "fields"))
  IN  [affordances |-> resolveCollectionAffordances(Get(cfg, "affordances")),
       fieldAffordances |-> fieldAffordances,
       idField |-> IF Nullish(Get(cfg, "idField")) THEN Text(detectIdField(shape))
                   ELSE cfg["idField"],
       labelField |-> IF Nullish(Get(cfg, "labelField"))
                      THEN Text(detectLabelField(fieldAffordances))
                      ELSE cfg["labelField"],
       operations |-> IF Nullish(Get(cfg, "operations")) THEN Arr("") ELSE cfg["operations"]]

----------------------------------------------------------------------------
(* Inputs: the schemas and configurations the calls are checked on *)

MaxWrappers == 2

MaxChecks == 2

MaxFields == 3

\* the writeIfChanged calls made on one path
MaxCalls == 2

\* the concurrent writeIfChanged calls made with one content
MaxSameCalls == 3

\* the items create adds up to, and the ids a client asks for
MaxItems == 2

\* the rows of a store
MaxRows == 2

\* the actions applied to a store
MaxActions == 3

\* the fetches a mounted hook starts
MaxFetches == 2

\* a node without _zod.def
NoDef ==
  [hasDef |-> FALSE, type |-> "undefined", hasChecks |-> FALSE, checks |-> <<>>,
   format |-> "none", hasDefaultValue |-> FALSE]

\* a def of the given type with no checks and no format
PlainDef(type) ==
  [hasDef |-> TRUE, type |-> type, hasChecks |-> FALSE, checks |-> <<>>,
   format |-> "none", hasDefaultValue |-> FALSE]

NoMeta == [has |-> FALSE, m |-> <<>>]

Node(wrappers, terminal, meta) ==
  [wrappers |-> wrappers, terminal |-> terminal, meta |-> meta]

\* def.type of the terminal nodes; "undefined" is a def without a type
TypeTags ==
  { "string", "number", "boolean", "enum", "date", "array", "object",
    "int", "bigint", "tuple", "record", "union", "literal", "undefined" }

CheckKinds == {"email", "url", "uuid"}

Formats == {"none", "email", "url", "uuid"}

CheckLists == UNION {[1..m -> CheckKinds] : m \in 0..MaxChecks}

StringDefs ==
  { [hasDef |-> TRUE, type |-> "string", hasChecks |-> TRUE, checks |-> cs,
     format |-> f, hasDefaultValue |-> FALSE] : cs \in CheckLists, f \in Formats }
  \cup
  { [hasDef |-> TRUE, type |-> "string", hasChecks |-> FALSE, checks |-> <<>>,
     format |-> f, hasDefaultValue |-> FALSE] : f \in Formats }

TerminalDefs ==
  StringDefs
  \cup {PlainDef(t) : t \in TypeTags}
  \cup {[PlainDef("boolean") EXCEPT !.hasDefaultValue = TRUE], NoDef}

WrapperChains == UNION {[1..m -> WrapperTypes] : m \in 0..MaxWrappers}

InferKeys ==
  { <<"i", "d">>, <<"_", "i", "d">>, <<"u", "u", "i", "d">>, <<"I", "D">>,
    <<"u", "s", "e", "r", "I", "d">>,
    <<"a", "p", "i", "_", "k", "e", "y">>, <<"a", "p", "i", "K", "e", "y">>,
    <<"e", "m", "a", "i", "l">>, <<"n", "a", "m", "e">>,
    <<"d", "e", "s", "c", "r", "i", "p", "t", "i", "o", "n">>,
    <<"s", "t", "a", "t", "u", "s">>,
    <<"c", "r", "e", "a", "t", "e", "d", "A", "t">>,
    <<"u", "p", "d", "a", "t", "e", "d", "_", "a", "t">>,
    <<"d", "e", "l", "e", "t", "e", "d", "A", "t">>,
    <<"p", "a", "s", "s", "w", "o", "r", "d">>,
    <<"a", "v", "a", "t", "a", "r", "U", "r", "l">>,
    <<"p", "r", "i", "c", "e">>,
    <<"s", "o", "m", "e", "W", "e", "i", "r", "d", "F", "i", "e", "l", "d">> }

Field(key, node) == [key |-> key, node |-> node]

\* no data provider, no store and no hook in use
NoProviderNoStore ==
  /\ provider = <<>>
  /\ store = <<>>
  /\ hook = <<>>

\* nothing generated yet, no file system in use and no writeIfChanged call
NoOutputNoFiles ==
  /\ output = <<>>
  /\ disk = <<>>
  /\ calls = <<>>
  /\ NoProviderNoStore

\* one field, no .meta() and no configuration: any wrapper chain around a def
\* without checks, or any string def, bare or under one wrapper
InferNodes ==
  { Node(ws, def, NoMeta) : ws \in WrapperChains,
                             def \in (TerminalDefs \ StringDefs) \cup {PlainDef("string")} }
  \cup
  { Node(ws, def, NoMeta) : ws \in {<<>>, <<"optional">>}, def \in StringDefs }

InitInfer ==
  /\ pc = "start"
  /\ \E key \in InferKeys, node \in InferNodes : schema = << Field(key, node) >>
  /\ config = <<>>
  /\ trace = <<>>
  /\ collection = <<>>
  /\ NoOutputNoFiles

\* a marker for a property that an enumerated object leaves out
Absent == Val("absent", "")

\* the object that holds the properties of `choice` not marked Absent
Present(choice) == [p \in {x \in DOMAIN choice : choice[x] # Absent} |-> choice[p]]

\* the values tried for each property of a per-field override
OverrideChoices ==
  [title |-> {Absent, Text(<<"L">>), Text(<<>>), Undef},
   sortable |-> {Absent, False, Undef},
   editable |-> {Absent, True},
   filterable |-> {Absent, Str("multiSelect")},
   zodType |-> {Absent, Str("custom")}]

Overrides ==
  { Present(choice) :
      choice \in { c \in [DOMAIN OverrideChoices -> UNION {OverrideChoices[p] : p \in DOMAIN OverrideChoices}] :
                      \A p \in DOMAIN OverrideChoices : c[p] \in OverrideChoices[p] } }

\* the .meta() annotations tried
Metas ==
  { NoMeta,
    [has |-> TRUE, m |-> [title |-> Text(<<"M">>)]],
    [has |-> TRUE, m |-> [title |-> Text(<<>>)]],
    [has |-> TRUE, m |-> [sortable |-> Str("asc"), editable |-> False]],
    [has |-> TRUE, m |-> [title |-> Text(<<"M">>),
                          affordances |-> Obj([title |-> Text(<<>>), visible |-> False])]],
    [has |-> TRUE, m |-> [description |-> Str("help"), affordances |-> Null]] }

OverrideKeys ==
  { <<"n", "a", "m", "e">>, <<"i", "d">>, <<"_">>, <<"u", "s", "e", "r", "_", "i", "d">> }

OverrideNodes(meta) ==
  { Node(<<>>, PlainDef("string"), meta), Node(<<"optional">>, PlainDef("number"), meta),
    Node(<<>>, NoDef, meta) }

\* a key that no schema has
GhostKey == <<"g", "h", "o", "s", "t">>

\* config.fields: absent, or an entry for the field, with or without an entry
\* for a key that is not in the schema
FieldsConfigs(key, override) ==
  { [fields |-> Obj((key :> Obj(override)))],
    [fields |-> Obj((key :> Obj(override)) @@ (GhostKey :> Obj([hidden |-> True])))] }
  \cup (IF DOMAIN override = {} THEN {<<>>, [fields |-> Undef]} ELSE {})

\* one field with a .meta() annotation and a per-field override
InitOverride ==
  /\ pc = "start"
  /\ \E key \in OverrideKeys, meta \in Metas, override \in Overrides :
       /\ \E node \in OverrideNodes(meta) : schema = << Field(key, node) >>
       /\ config \in FieldsConfigs(key, override)
  /\ trace = <<>>
  /\ collection = <<>>
  /\ NoOutputNoFiles

IdentityKeys ==
  { <<"i", "d">>, <<"_", "i", "d">>, <<"u", "u", "i", "d">>, <<"k", "e", "y">>,
    <<"u", "s", "e", "r", "I", "d">>, <<"u", "s", "e", "r", "I", "D">>,
    <<"p", "a", "i", "d">>, <<"n", "a", "m", "e">>, <<"p", "r", "i", "c", "e">> }

\* the shapes of up to MaxFields fields with pairwise distinct keys
Shapes ==
  UNION { { [i \in 1..m |-> Field(keys[i],
                                  Node(<<>>,
                                       IF keys[i] = <<"p", "r", "i", "c", "e">>
                                       THEN PlainDef("number") ELSE PlainDef("string"),
                                       NoMeta))] :
              keys \in { ks \in [1..m -> IdentityKeys] :
                           \A i, j \in 1..m : i # j => ks[i] # ks[j] } } :
          m \in 0..MaxFields }

\* config.idField and config.fields as tried for the identity detection
IdentityConfigs ==
  { Present([idField |-> idField, fields |-> fields]) :
      idField \in {Absent, Undef, Text(<<"n", "a", "m", "e">>), Text(GhostKey)},
      fields \in {Absent, Obj((GhostKey :> Obj([hidden |-> True])))} }

\* several fields, with or without an idField override and an override entry
\* for a key that is not in the schema
InitIdentity ==
  /\ pc = "start"
  /\ schema \in Shapes
  /\ config \in IdentityConfigs
  /\ trace = <<>>
  /\ collection = <<>>
  /\ NoOutputNoFiles

PaginationPatches ==
  { Obj(Present(choice)) :
      choice \in [defaultPageSize : {Absent, Num(50)}, style : {Absent, Str("infinite")},
                  serverSide : {Absent, True, Undef},
                  pageSizeOptions : {Absent, Arr("5,10")}] }

SearchPatches ==
  { Obj(Present(choice)) :
      choice \in [debounce : {Absent, Num(500)}, placeholder : {Absent, Str("Find")},
                  highlight : {Absent, True}] }

\* config.affordances as tried: the shorthands and partial objects of
\* pagination and search, next to another toggle
AffordanceConfigs ==
  { [affordances |-> Obj(Present([pagination |-> pagination, search |-> search,
                                  create |-> create]))] :
      pagination \in {Absent, True, False, Undef, Null} \cup PaginationPatches,
      search \in {Absent, True, False, Undef} \cup SearchPatches,
      create \in {Absent, False} }
  \cup {<<>>, [affordances |-> Undef]}

InitAffordances ==
  /\ pc = "start"
  /\ schema = << Field(<<"n", "a", "m", "e">>, Node(<<>>, PlainDef("string"), NoMeta)) >>
  /\ config \in AffordanceConfigs
  /\ trace = <<>>
  /\ collection = <<>>
  /\ NoOutputNoFiles

----------------------------------------------------------------------------
(* The call *)

DefineCollection ==
  /\ pc = "start"
  /\ pc' = "done"
  /\ collection' = defineCollection(schema, config)
  /\ trace' = [i \in 1..Len(schema) |-> InferLayers(schema[i].key, schema[i].node)]
  /\ UNCHANGED <<schema, config, output, disk, calls, provider, store, hook>>

Next == DefineCollection

SpecInfer == InitInfer /\ [][Next]_vars

SpecOverride == InitOverride /\ [][Next]_vars

SpecIdentity == InitIdentity /\ [][Next]_vars

SpecAffordances == InitAffordances /\ [][Next]_vars

Init == InitInfer \/ InitOverride \/ InitIdentity \/ InitAffordances

Spec == Init /\ [][Next]_vars

----------------------------------------------------------------------------
(* Vocabulary of the properties below *)

Done == pc = "done"

Fields == 1..Len(schema)

\* the resolved affordances of the i-th schema field
Resolved(i) == collection.fieldAffordances[i].fa

\* the terminal def of the i-th schema field, under all its wrappers
TerminalOf(i) == schema[i].node.terminal

\* the case labels of the type-default switch
RecognizedTypes ==
  { "string", "number", "int", "float", "bigint", "boolean", "enum", "nativeEnum",
    "date", "array", "set", "tuple", "object", "record", "map" }

\* an unrecognized or malformed node: no def, a def without a type, or a type
\* outside the type-default table
Unrecognized(i) == ~TerminalOf(i).hasDef \/ TerminalOf(i).type \notin RecognizedTypes

\* the i-th field has neither a .meta() annotation nor an entry in config.fields
NoOverrides(i) ==
  /\ ~schema[i].node.meta.has
  /\ DOMAIN ExplicitOverrides(Get(config, "fields"), schema[i].key) = {}

\* the heuristics in the order the specification lists them
ListedHeuristics ==
  << "id", "created", "updated", "deleted", "secret",
     "email", "name", "description", "image", "status" >>

\* what the patch of each heuristic sets, as the specification and the README state it
PatchOf(h, key) ==
  CASE h = "id" ->
         IF key = <<"i", "d">>
         THEN [editable |-> False, visible |-> False, filterable |-> Str("exact"),
               searchable |-> False]
         ELSE [editable |-> False, filterable |-> Str("exact"), searchable |-> False]
    [] h = "created" ->
         [editable |-> False, sortable |-> Str("both"), filterable |-> Str("range")]
    [] h = "updated" -> [editable |-> False, visible |-> False, sortable |-> Str("both")]
    [] h = "deleted" -> [editable |-> False, visible |-> False]
    [] h = "secret" ->
         [readable |-> False, searchable |-> False, sortable |-> False,
          filterable |-> False, visible |-> False]
    [] h = "email" ->
         [editWidget |-> Str("email"), filterable |-> Str("search"), searchable |-> True]
    [] h = "name" -> [searchable |-> True, summaryField |-> True, sortable |-> Str("both")]
    [] h = "description" ->
         [editWidget |-> Str("textarea"), truncate |-> Num(100), tooltip |-> True,
          sortable |-> False]
    [] h = "image" -> [sortable |-> False, filterable |-> False, searchable |-> False]
    [] h = "status" -> [groupable |-> True, filterable |-> Str("select")]

\* the positions, in the listed order, of the heuristics whose pattern matches key
MatchingHeuristics(key) ==
  {j \in 1..Len(ListedHeuristics) : HeuristicMatches(ListedHeuristics[j], key)}

\* among them, those whose patch sets property p
Setters(key, p) ==
  {j \in MatchingHeuristics(key) : p \in DOMAIN PatchOf(ListedHeuristics[j], key)}

MaxIndex(indexes) == CHOOSE i \in indexes : \A j \in indexes : j <= i

\* property p of record b is what it is in record a: absent in both, or equal
SameProperty(a, b, p) ==
  /\ (p \in DOMAIN a) = (p \in DOMAIN b)
  /\ p \in DOMAIN a => a[p] = b[p]

----------------------------------------------------------------------------
(* C3 *)

EightTags ==
  {"string", "number", "boolean", "enum", "date", "array", "object", "unknown"}

----------------------------------------------------------------------------
(* C4 *)

----------------------------------------------------------------------------
(* C6 *)

\* C6: when a field name matches several name heuristics, the layer-3 result
\* carries every property their patches set, a property set by two of them has
\* the value of the later-listed one, and every other property is left as
\* layer 2 produced it.
C6_UnionLaterWins ==
  Done => \A i \in DOMAIN trace :
            Cardinality(MatchingHeuristics(trace[i].key)) >= 2 =>
              \A p \in affordanceKeys :
                IF Setters(trace[i].key, p) = {}
                THEN SameProperty(trace[i].l2, trace[i].l3, p)
                ELSE /\ p \in DOMAIN trace[i].l3
                     /\ trace[i].l3[p] =
                          PatchOf(ListedHeuristics[MaxIndex(Setters(trace[i].key, p))],
                                  trace[i].key)[p]

\* api_key matches the identifier suffix and the secret pattern: not editable
\* by the first, not readable by the second, and the filter of the second
C6_Witness ==
  /\ Done
  /\ \E i \in DOMAIN trace :
       /\ trace[i].key = <<"a", "p", "i", "_", "k", "e", "y">>
       /\ MatchingHeuristics(trace[i].key) = {1, 5}
       /\ trace[i].l2["filterable"] = Str("search")
       /\ trace[i].l3["editable"] = False
       /\ trace[i].l3["readable"] = False
       /\ trace[i].l3["filterable"] = False

----------------------------------------------------------------------------
(* C7 *)

\* C7, as claimed: whenever a matching name heuristic sets a property, the
\* value after layer 3 is that heuristic's value (the last matching one that
\* sets it), whatever the validation layer had set.
C7_NameLayerOverrides ==
  Done => \A i \in DOMAIN trace :
            \A p \in affordanceKeys :
              Setters(trace[i].key, p) # {} =>
                /\ p \in DOMAIN trace[i].l3
                /\ trace[i].l3[p] =
                     PatchOf(ListedHeuristics[MaxIndex(Setters(trace[i].key, p))],
                             trace[i].key)[p]

----------------------------------------------------------------------------
(* C8 *)

\* C8, as claimed: with no overrides, every field whose name matches the
\* identifier heuristic resolves to visible=false, editable=false and
\* filterable='exact'.
C8_IdentifierHidden ==
  Done => \A i \in Fields :
            HeuristicMatches("id", schema[i].key) /\ NoOverrides(i) =>
              /\ Resolved(i)["visible"] = False
              /\ Resolved(i)["editable"] = False
              /\ Resolved(i)["filterable"] = Str("exact")

----------------------------------------------------------------------------
(* C1 *)

\* the entry of config.fields for the i-th schema field ({} when there is none)
OverrideOf(i) == ExplicitOverrides(Get(config, "fields"), schema[i].key)

\* C1, as claimed: every property present in config.fields[k] has, in the
\* resolved fieldAffordances[k], the override's value.
C1_OverrideWins ==
  Done => \A i \in Fields :
            \A p \in DOMAIN OverrideOf(i) : Resolved(i)[p] = OverrideOf(i)[p]

\* C1, amended: every property present in config.fields[k] has the override's
\* value in the resolved record, whatever the inference layers and .meta()
\* produced for it, with two exceptions: zodType is always the schema's type
\* tag, and a title override of undefined or null resolves to the humanized key.
C1_OverrideWinsButTitleAndTag ==
  Done => \A i \in Fields :
            \A p \in DOMAIN OverrideOf(i) :
              CASE p = "zodType" ->
                     Resolved(i)[p] = Str(getZodBaseType(schema[i].node))
                [] p = "title" /\ Nullish(OverrideOf(i)[p]) ->
                     Resolved(i)[p] = humanizeFieldName(schema[i].key)
                [] OTHER -> Resolved(i)[p] = OverrideOf(i)[p]

\* an override of sortable replaced what .meta() had set, and an undefined
\* title override gave way to the humanized key
C1_Witness ==
  /\ Done
  /\ \E i \in Fields :
       /\ "sortable" \in DOMAIN OverrideOf(i)
       /\ OverrideOf(i)["sortable"] = False
       /\ trace[i].inferred["sortable"] = Str("asc")
       /\ Resolved(i)["sortable"] = False
       /\ "title" \in DOMAIN OverrideOf(i)
       /\ OverrideOf(i)["title"] = Undef
       /\ Resolved(i)["title"] = Text(<<"N", "a", "m", "e">>)

----------------------------------------------------------------------------
(* C2 *)

\* C2, as claimed: for every schema and every config, every entry of the
\* resolved fieldAffordances has a non-empty title string.
C2_TitleNonEmpty ==
  Done => \A i \in Fields :
            /\ Resolved(i)["title"].k = "text"
            /\ Resolved(i)["title"].q # <<>>

----------------------------------------------------------------------------
(* C5 *)

\* the caller's collection-affordance patch ({} when there is none)
PatchGiven == IF Nullish(Get(config, "affordances")) THEN <<>> ELSE config["affordances"].o

\* what the patch, or else the default record, holds for a toggle
Requested(toggle) ==
  IF toggle \in DOMAIN PatchGiven THEN PatchGiven[toggle]
  ELSE DEFAULT_COLLECTION_AFFORDANCES[toggle]

\* the resolved value of a toggle is the normal form of the requested one:
\* never the bare true; the full default sub-object for true; the default
\* sub-object with exactly the caller's keys replaced for a partial object;
\* false for false
NormalForm(toggle, defaults) ==
  LET got == collection.affordances[toggle]
      asked == Requested(toggle)
  IN  /\ got # True
      /\ asked = True => got = Obj(defaults)
      /\ asked.k = "obj" =>
           /\ got.k = "obj"
           /\ DOMAIN got.o = DOMAIN defaults \cup DOMAIN asked.o
           /\ \A key \in DOMAIN got.o :
                got.o[key] = IF key \in DOMAIN asked.o THEN asked.o[key] ELSE defaults[key]
      /\ asked = False => got = False

\* C5: the resolved pagination and search are never the bare value true: true
\* expands to the full default sub-object, a partial object yields the default
\* sub-object with exactly the supplied keys replaced by the caller's values,
\* and false passes through as false.
C5_ShorthandsNormalized ==
  Done => /\ NormalForm("pagination", DEFAULT_PAGINATION)
          /\ NormalForm("search", DEFAULT_SEARCH)

\* pagination: { defaultPageSize: 50 } came out with the other three defaults
\* around it, next to search: true expanded in full
C5_Witness ==
  /\ Done
  /\ Requested("pagination") = Obj([defaultPageSize |-> Num(50)])
  /\ collection.affordances["pagination"] =
       Obj([defaultPageSize |-> Num(50), pageSizeOptions |-> Arr("10,25,50,100"),
            style |-> Str("pages"), serverSide |-> False])
  /\ Requested("search") = True
  /\ collection.affordances["search"].k = "obj"

----------------------------------------------------------------------------
(* C9 *)

\* the keys of the resolved fieldAffordances, in their order
ResolvedKeys ==
  [i \in 1..Len(collection.fieldAffordances) |-> collection.fieldAffordances[i].key]

\* the configuration without the entries of config.fields whose key is not a
\* schema field
WithoutStrayFields ==
  IF Nullish(Get(config, "fields")) THEN config
  ELSE Put(config, "fields",
           Obj([key \in DOMAIN config["fields"].o \cap ShapeKeys(schema) |->
                  config["fields"].o[key]]))

\* C9: an entry of config.fields whose key is not a schema field has no
\* effect: the keys of the resolved fieldAffordances are the schema's field
\* keys, in declaration order, and the collection is the one the configuration
\* without that entry gives.
C9_KeysAreSchemaKeys ==
  Done => /\ ResolvedKeys = [i \in 1..Len(schema) |-> schema[i].key]
          /\ collection = defineCollection(schema, WithoutStrayFields)

\* a call whose config.fields names a key the schema lacks has returned
C9_Witness ==
  /\ Done
  /\ Len(schema) >= 2
  /\ ~Nullish(Get(config, "fields"))
  /\ GhostKey \in DOMAIN config["fields"].o
  /\ GhostKey \notin ShapeKeys(schema)
  /\ Len(collection.fieldAffordances) = Len(schema)

----------------------------------------------------------------------------
(* C10 *)

\* the names that are preferred as they are, in order of preference
ExactIdNames ==
  << <<"i", "d">>, <<"_", "i", "d">>, <<"u", "u", "i", "d">>, <<"k", "e", "y">> >>

\* the name ends in id or Id (which covers _id)
EndsLikeAnIdentifier(key) ==
  Len(key) >= 2 /\ key[Len(key)] = "d" /\ key[Len(key) - 1] \in {"i", "I"}

\* the idField the claim names for a schema with at least one field
ClaimedIdField ==
  LET exact == {n \in 1..Len(ExactIdNames) : \E i \in Fields : schema[i].key = ExactIdNames[n]}
      suffixed == {i \in Fields : EndsLikeAnIdentifier(schema[i].key)}
  IN  IF exact # {} THEN ExactIdNames[CHOOSE n \in exact : \A m \in exact : n <= m]
      ELSE IF suffixed # {} THEN schema[CHOOSE i \in suffixed : \A j \in suffixed : i <= j].key
      ELSE schema[1].key

----------------------------------------------------------------------------
(* Label detection: the schemas and overrides it is checked on *)

LabelKeys ==
  { <<"i", "d">>, <<"n", "o", "t", "e", "s">>, <<"p", "r", "i", "c", "e">>,
    <<"u", "s", "e", "r", "n", "a", "m", "e">>, <<"t", "i", "t", "l", "e">> }

\* the per-field overrides tried: none, a summaryField flag, editable: false
LabelOverrides ==
  { <<>>, [summaryField |-> True], [summaryField |-> False], [editable |-> False] }

\* a string field, or a number field for the key price
LabelField(key) ==
  Field(key, Node(<<>>,
                  IF key = <<"p", "r", "i", "c", "e">> THEN PlainDef("number")
                  ELSE PlainDef("string"),
                  NoMeta))

\* the shapes of up to MaxFields fields with pairwise distinct keys
LabelShapes ==
  UNION { { [i \in 1..m |-> LabelField(keys[i])] :
              keys \in { ks \in [1..m -> LabelKeys] :
                           \A i, j \in 1..m : i # j => ks[i] # ks[j] } } :
          m \in 0..MaxFields }

\* config.fields with one override object for each field of the shape
LabelFieldsConfigs(shape) ==
  { Obj([key \in ShapeKeys(shape) |->
           Obj(overrides[CHOOSE i \in 1..Len(shape) : shape[i].key = key])]) :
      overrides \in [1..Len(shape) -> LabelOverrides] }

InitLabel ==
  /\ pc = "start"
  /\ schema \in LabelShapes
  /\ \E fields \in LabelFieldsConfigs(schema),
        labelField \in {Absent, Undef, Text(<<"p", "r", "i", "c", "e">>)} :
       \* an override of labelField is tried on the shapes of one field only
       /\ labelField.k = "text" => Len(schema) = 1
       /\ config = Present([fields |-> fields, labelField |-> labelField])
  /\ trace = <<>>
  /\ collection = <<>>
  /\ NoOutputNoFiles

SpecLabel == InitLabel /\ [][Next]_vars

----------------------------------------------------------------------------
(* C11 *)

\* the field has a labelField override that ?? does not skip
LabelOverridden == ~Nullish(Get(config, "labelField"))

SummaryFields == {i \in Fields : Get(Resolved(i), "summaryField") = True}

PreferredNames == {i \in 1..Len(labelNames) : labelNames[i] \in ShapeKeys(schema)}

EditableStrings ==
  {i \in Fields : Resolved(i)["zodType"] = Str("string") /\ Get(Resolved(i), "editable") # False}

\* the label field as the four rules name it, for a schema with a field
ClaimedLabelField ==
  IF SummaryFields # {} THEN schema[MinIndex(SummaryFields)].key
  ELSE IF PreferredNames # {} THEN labelNames[MinIndex(PreferredNames)]
  ELSE IF EditableStrings # {} THEN schema[MinIndex(EditableStrings)].key
  ELSE schema[1].key

C11_WitnessSummary ==
  /\ Done
  /\ ~LabelOverridden
  /\ SummaryFields # {}
  /\ PreferredNames # {}
  /\ collection.labelField = Text(schema[MinIndex(SummaryFields)].key)
  /\ collection.labelField # Text(labelNames[MinIndex(PreferredNames)])

----------------------------------------------------------------------------
(* Accessors of the collection definition, and the schema readers the       *)
(* generators use                                                          *)

\* an array of the given items; the empty one is Arr("")
List(items) == [k |-> "arr", s |-> "", n |-> 0, q |-> items, o |-> <<>>]

\* a boolean of the program
Bool(b) == IF b THEN True ELSE False

\* x ?? d
Coalesce(v, d) == IF Nullish(v) THEN d ELSE v

\* Array.prototype.sort with the comparator (a, b) => key(a) - key(b): the
\* items by ascending key, items of equal key in their order in the array
StableSort(items, keys) ==
  LET n == Len(items)
      Rank(i) == 1 + Cardinality({j \in 1..n : \/ keys[j] < keys[i]
                                               \/ keys[j] = keys[i] /\ j < i})
  IN  [k \in 1..n |-> items[CHOOSE i \in 1..n : Rank(i) = k]]

\* collection.fieldAffordances[key]
FieldAffordanceOf(fieldAffordances, key) ==
  fieldAffordances[CHOOSE i \in 1..Len(fieldAffordances) : fieldAffordances[i].key = key].fa

\* shape[key]
FieldSchemaOf(shape, key) ==
  shape[CHOOSE i \in 1..Len(shape) : shape[i].key = key].node

\* (a.order ?? 999)
OrderOr999(fa) == Coalesce(Get(fa, "order"), Num(999)).n

\* a getVisibleFields that ignores the order property
getVisibleFieldsUnordered(fieldAffordances) ==
  LET shown == SelectSeq(fieldAffordances,
                         LAMBDA e : /\ Get(e.fa, "visible") # False
                                    /\ Falsy(Get(e.fa, "hidden"))
                                    /\ Falsy(Get(e.fa, "detailOnly")))
  IN  [i \in 1..Len(shown) |-> shown[i].key]

\* getVisibleFields: the keys of the entries that pass the filter, sorted
getVisibleFields(fieldAffordances) ==
  LET shown == SelectSeq(fieldAffordances,
                         LAMBDA e : /\ Get(e.fa, "visible") # False
                                    /\ Falsy(Get(e.fa, "hidden"))
                                    /\ Falsy(Get(e.fa, "detailOnly")))
      sorted == StableSort(shown, [i \in 1..Len(shown) |-> OrderOr999(shown[i].fa)])
  IN  [i \in 1..Len(sorted) |-> sorted[i].key]

\* getFilterableFields: the entries whose filterable is not false
getFilterableFields(fieldAffordances) ==
  SelectSeq(fieldAffordances, LAMBDA e : Get(e.fa, "filterable") # False)

\* getOperations(scope)
getOperations(operations, scope) ==
  SelectSeq(operations.q, LAMBDA op : Get(op, "scope") = Str(scope))

\* the terminal node's own property p, undefined when it has none
TerminalGet(node, p) == Get(unwrapZodSchema(node).terminal, p)

\* getEnumValues: null, or the array Object.values(def.entries) / def.values.
\* entries is the object's properties in its own property order, each a
\* [key, value] pair
getEnumValues(node) ==
  LET def == unwrapZodSchema(node).terminal
      none == [isNull |-> TRUE, values |-> <<>>]
  IN  IF unwrapZodSchema(node).wrappers # <<>> \/ ~def.hasDef THEN none
      ELSE IF def.type # "enum" THEN none
      ELSE IF "entries" \in DOMAIN def
           THEN [isNull |-> FALSE,
                 values |-> [i \in 1..Len(def.entries) |-> def.entries[i].value]]
           ELSE IF "values" \in DOMAIN def
                THEN [isNull |-> FALSE, values |-> def.values]
                ELSE none

\* typeof v === 'number' && v !== sentinel
IsBoundValue(v, sentinel) == v.k = "num" /\ v.s # sentinel

\* the loop over def.checks: a min / max check fills a bound that is still
\* undefined
RECURSIVE BoundsFromChecks(_, _)
BoundsFromChecks(result, checks) ==
  IF checks = <<>> THEN result
  ELSE LET check == Head(checks)
           a == IF check.kind = "min" /\ Get(result, "min") = Undef
                THEN Put(result, "min", check.value) ELSE result
           b == IF check.kind = "max" /\ Get(a, "max") = Undef
                THEN Put(a, "max", check.value) ELSE a
       IN  BoundsFromChecks(b, Tail(checks))

\* getNumericBounds: minValue / maxValue of the unwrapped schema, then the
\* checks of its def (numChecks: the def.checks of a number def, as
\* [kind, value] records; the checks of the string defs are never min or max)
getNumericBounds(node) ==
  LET schemaNode == unwrapZodSchema(node).terminal
      a == IF IsBoundValue(Get(schemaNode, "minValue"), "-MAX_SAFE_INTEGER")
           THEN [min |-> schemaNode["minValue"]] ELSE <<>>
      b == IF IsBoundValue(Get(schemaNode, "maxValue"), "MAX_SAFE_INTEGER")
           THEN Put(a, "max", schemaNode["maxValue"]) ELSE a
  IN  IF schemaNode.hasDef /\ "numChecks" \in DOMAIN schemaNode
      THEN BoundsFromChecks(b, schemaNode.numChecks)
      ELSE b

----------------------------------------------------------------------------
(* toColumnDefs *)

inferSortFnName(zodType) ==
  IF zodType = Str("string") THEN Str("text")
  ELSE IF zodType \in {Str("number"), Str("int"), Str("float"), Str("bigint")} THEN Str("basic")
  ELSE IF zodType = Str("date") THEN Str("datetime")
  ELSE IF zodType = Str("boolean") THEN Str("basic")
  ELSE IF zodType = Str("enum") THEN Str("text")
  ELSE Str("basic")

inferFilterFnName(filterType) ==
  IF filterType.k = "bool" THEN Str("includesString")
  ELSE IF filterType = Str("exact") THEN Str("equalsString")
  ELSE IF filterType = Str("search") THEN Str("includesString")
  ELSE IF filterType = Str("select") THEN Str("arrIncludes")
  ELSE IF filterType = Str("multiSelect") THEN Str("arrIncludesSome")
  ELSE IF filterType = Str("range") THEN Str("inNumberRange")
  ELSE IF filterType = Str("contains") THEN Str("arrIncludesAll")
  ELSE IF filterType = Str("boolean") THEN Str("equals")
  ELSE Str("includesString")

\* the selection column and the actions column
DisplayColumn(id, size) ==
  [id |-> Text(id), header |-> Text(<<>>),
   enableSorting |-> False, enableColumnFilter |-> False, enableGlobalFilter |-> False,
   enableGrouping |-> False, enableHiding |-> False, enableResizing |-> False,
   size |-> Num(size),
   meta |-> [zodType |-> Str("display"), filterType |-> False, editable |-> False,
             inlineEditable |-> False]]

\* the column pushed for one visible field
DataColumn(key, fa, fieldSchema) ==
  [id |-> Text(key), header |-> fa["title"], accessorKey |-> Text(key),
   enableSorting |-> Bool(Get(fa, "sortable") # False /\ Get(fa, "sortable") # Str("none")),
   enableColumnFilter |-> Bool(Get(fa, "filterable") # False),
   enableGlobalFilter |-> Coalesce(Get(fa, "searchable"), False),
   enableGrouping |-> Coalesce(Get(fa, "groupable"), False),
   enableHiding |-> Bool(Falsy(Get(fa, "hidden"))),
   enableResizing |-> Coalesce(Get(fa, "resizable"), True),
   size |-> Get(fa, "columnWidth"),
   minSize |-> Get(fa, "minWidth"),
   maxSize |-> Get(fa, "maxWidth"),
   sortingFn |-> inferSortFnName(fa["zodType"]),
   sortDescFirst |-> Bool(Get(fa, "sortable") = Str("desc")),
   filterFn |-> IF Falsy(Get(fa, "filterable")) THEN Undef
                ELSE inferFilterFnName(fa["filterable"]),
   meta |-> [zodType |-> fa["zodType"],
             filterType |-> Coalesce(Get(fa, "filterable"), False),
             editable |-> Coalesce(Get(fa, "editable"), False),
             inlineEditable |-> Coalesce(Get(fa, "inlineEditable"), False),
             displayFormat |-> Get(fa, "displayFormat"),
             badge |-> Get(fa, "badge"),
             copyable |-> Get(fa, "copyable"),
             truncate |-> Get(fa, "truncate"),
             tooltip |-> Get(fa, "tooltip"),
             enumValues |-> IF getEnumValues(fieldSchema).isNull THEN Undef
                            ELSE List(getEnumValues(fieldSchema).values),
             numericBounds |-> Obj(getNumericBounds(fieldSchema)),
             pinned |-> Get(fa, "pinned")]]

SelectId == <<"s", "e", "l", "e", "c", "t">>

ActionsId == <<"a", "c", "t", "i", "o", "n", "s">>

\* the actions column, if there are item-level operations
ActionsColumn(itemOps) ==
  IF Len(itemOps) > 0
  THEN << DisplayColumn(ActionsId, 60 + (Len(itemOps) - 1) * 32) >>
  ELSE <<>>

toColumnDefs(coll, shape) ==
  LET visibleFields == getVisibleFields(coll.fieldAffordances)
  IN  (IF ~Falsy(coll.affordances["selectable"])
       THEN << DisplayColumn(SelectId, 40) >> ELSE <<>>)
      \o [i \in 1..Len(visibleFields) |->
            DataColumn(visibleFields[i],
                       FieldAffordanceOf(coll.fieldAffordances, visibleFields[i]),
                       FieldSchemaOf(shape, visibleFields[i]))]
      \o ActionsColumn(getOperations(coll.operations, "item"))

----------------------------------------------------------------------------
(* toFormConfig and toFilterConfig *)

inferFormWidgetType(zodType, fa) ==
  IF ~Falsy(Get(fa, "editWidget")) THEN fa["editWidget"]
  ELSE IF zodType = Str("string") THEN Str("text")
  ELSE IF zodType \in {Str("number"), Str("int"), Str("float")} THEN Str("number")
  ELSE IF zodType = Str("boolean") THEN Str("checkbox")
  ELSE IF zodType = Str("enum") THEN Str("select")
  ELSE IF zodType = Str("date") THEN Str("date")
  ELSE IF zodType = Str("array") THEN Str("tags")
  ELSE IF zodType = Str("object") THEN Str("json")
  ELSE Str("text")

\* v.charAt(0).toUpperCase() + v.slice(1), for a string v
OptionLabel(v) ==
  IF v.q = <<>> THEN Text(<<>>) ELSE Text(<< ToUpper(Head(v.q)) >> \o Tail(v.q))

\* enumValues.map(v => ({ label: ..., value: v }))
EnumOptions(values) ==
  List([i \in 1..Len(values) |-> [label |-> OptionLabel(values[i]), value |-> values[i]]])

\* v.charAt is not a function: a member that is not a string raises a TypeError
OptionsThrow(values) == \E i \in 1..Len(values) : values[i].k # "text"

\* a form that leaves out every field that is not editable, required or not
FormSkipsAnyUneditable(fa, mode) ==
  \/ Get(fa, "readable") = False /\ mode = "edit"
  \/ Get(fa, "editable") = False
  \/ ~Falsy(Get(fa, "hidden"))
  \/ mode = "edit" /\ ~Falsy(Get(fa, "immutableAfterCreate"))

\* the `continue` tests of the loop
FormSkips(fa, mode) ==
  \/ Get(fa, "readable") = False /\ mode = "edit"
  \/ Get(fa, "editable") = False /\ mode = "create" /\ Falsy(Get(fa, "requiredOnCreate"))
  \/ Get(fa, "editable") = False /\ mode = "edit"
  \/ ~Falsy(Get(fa, "hidden"))
  \/ mode = "edit" /\ ~Falsy(Get(fa, "immutableAfterCreate"))

\* an object whose order is the counter's value, whatever fa.order is
FormFieldCounterOnly(key, fa, fieldSchema, mode, orderCounter) ==
  [name |-> Text(key), label |-> fa["title"],
   type |-> inferFormWidgetType(fa["zodType"], fa),
   required |-> IF mode = "create" THEN Coalesce(Get(fa, "requiredOnCreate"), False)
                ELSE Coalesce(Get(fa, "requiredOnUpdate"), False),
   disabled |-> Bool(Get(fa, "editable") = False),
   hidden |-> Coalesce(Get(fa, "hidden"), False),
   placeholder |-> Get(fa, "editPlaceholder"),
   helpText |-> Coalesce(Get(fa, "editHelp"), Get(fa, "description")),
   options |-> IF getEnumValues(fieldSchema).isNull THEN Undef
               ELSE EnumOptions(getEnumValues(fieldSchema).values),
   order |-> Num(orderCounter),
   zodType |-> fa["zodType"]]

\* the object pushed for one field; orderCounter is the counter's value when
\* the field is reached
FormField(key, fa, fieldSchema, mode, orderCounter) ==
  [name |-> Text(key), label |-> fa["title"],
   type |-> inferFormWidgetType(fa["zodType"], fa),
   required |-> IF mode = "create" THEN Coalesce(Get(fa, "requiredOnCreate"), False)
                ELSE Coalesce(Get(fa, "requiredOnUpdate"), False),
   disabled |-> Bool(Get(fa, "editable") = False),
   hidden |-> Coalesce(Get(fa, "hidden"), False),
   placeholder |-> Get(fa, "editPlaceholder"),
   helpText |-> Coalesce(Get(fa, "editHelp"), Get(fa, "description")),
   options |-> IF getEnumValues(fieldSchema).isNull THEN Undef
               ELSE EnumOptions(getEnumValues(fieldSchema).values),
   order |-> Coalesce(Get(fa, "order"), Num(orderCounter)),
   zodType |-> fa["zodType"]]

\* the loop over Object.entries(shape), from field i on
RECURSIVE FormLoop(_, _, _, _, _)
FormLoop(coll, shape, mode, i, orderCounter) ==
  IF i > Len(shape) THEN <<>>
  ELSE LET fa == FieldAffordanceOf(coll.fieldAffordances, shape[i].key)
       IN  IF FormSkips(fa, mode) THEN FormLoop(coll, shape, mode, i + 1, orderCounter)
           ELSE << FormField(shape[i].key, fa, shape[i].node, mode, orderCounter) >>
                \o FormLoop(coll, shape, mode, i + 1,
                            IF Nullish(Get(fa, "order")) THEN orderCounter + 1
                            ELSE orderCounter)

\* toFormConfig: the sorted fields, or the TypeError of the options of a field
\* it does not skip
toFormConfig(coll, shape, mode) ==
  LET throws ==
        \E i \in 1..Len(shape) :
           /\ ~FormSkips(FieldAffordanceOf(coll.fieldAffordances, shape[i].key), mode)
           /\ ~getEnumValues(shape[i].node).isNull
           /\ OptionsThrow(getEnumValues(shape[i].node).values)
      fields == FormLoop(coll, shape, mode, 1, 0)
  IN  IF throws THEN [threw |-> TRUE, value |-> <<>>]
      ELSE [threw |-> FALSE,
            value |-> StableSort(fields, [i \in 1..Len(fields) |-> fields[i].order.n])]

\* typeof filterable === 'string' ? filterable : 'search'
FilterTypeOf(fa) ==
  IF Get(fa, "filterable").k \in {"str", "text"} THEN fa["filterable"] ELSE Str("search")

\* a filter entry that carries the enum options whatever its filter type
FilterFieldAlwaysOptions(key, fa, fieldSchema) ==
  [name |-> Text(key), label |-> Coalesce(Get(fa, "title"), Text(key)),
   filterType |-> FilterTypeOf(fa),
   options |-> IF ~getEnumValues(fieldSchema).isNull
               THEN EnumOptions(getEnumValues(fieldSchema).values) ELSE Undef,
   bounds |-> IF FilterTypeOf(fa) = Str("range") THEN Obj(getNumericBounds(fieldSchema))
              ELSE Undef,
   zodType |-> fa["zodType"]]

\* the object pushed for one filterable field
FilterField(key, fa, fieldSchema) ==
  [name |-> Text(key), label |-> Coalesce(Get(fa, "title"), Text(key)),
   filterType |-> FilterTypeOf(fa),
   options |-> IF /\ ~getEnumValues(fieldSchema).isNull
                  /\ FilterTypeOf(fa) \in {Str("select"), Str("multiSelect")}
               THEN EnumOptions(getEnumValues(fieldSchema).values) ELSE Undef,
   bounds |-> IF FilterTypeOf(fa) = Str("range") THEN Obj(getNumericBounds(fieldSchema))
              ELSE Undef,
   zodType |-> fa["zodType"]]

\* toFilterConfig: one entry for each filterable field, or the TypeError of
\* the options of one of them
toFilterConfig(coll, shape) ==
  LET filterableFields == getFilterableFields(coll.fieldAffordances)
      throws ==
        \E i \in 1..Len(filterableFields) :
           /\ ~getEnumValues(FieldSchemaOf(shape, filterableFields[i].key)).isNull
           /\ FilterTypeOf(filterableFields[i].fa) \in {Str("select"), Str("multiSelect")}
           /\ OptionsThrow(getEnumValues(FieldSchemaOf(shape, filterableFields[i].key)).values)
  IN  IF throws THEN [threw |-> TRUE, value |-> <<>>]
      ELSE [threw |-> FALSE,
            value |-> [i \in 1..Len(filterableFields) |->
                         FilterField(filterableFields[i].key, filterableFields[i].fa,
                                     FieldSchemaOf(shape, filterableFields[i].key))]]

----------------------------------------------------------------------------
(* The generator calls *)

ToColumnDefs ==
  /\ pc = "done"
  /\ output' = [fn |-> "toColumnDefs", mode |-> "", threw |-> FALSE,
                value |-> toColumnDefs(collection, schema)]
  /\ UNCHANGED <<pc, schema, config, trace, collection, disk, calls, provider, store, hook>>

ToFormConfig ==
  /\ pc = "done"
  /\ \E mode \in {"create", "edit"} :
       output' = [fn |-> "toFormConfig", mode |-> mode,
                  threw |-> toFormConfig(collection, schema, mode).threw,
                  value |-> toFormConfig(collection, schema, mode).value]
  /\ UNCHANGED <<pc, schema, config, trace, collection, disk, calls, provider, store, hook>>

ToFilterConfig ==
  /\ pc = "done"
  /\ output' = [fn |-> "toFilterConfig", mode |-> "",
                threw |-> toFilterConfig(collection, schema).threw,
                value |-> toFilterConfig(collection, schema).value]
  /\ UNCHANGED <<pc, schema, config, trace, collection, disk, calls, provider, store, hook>>

NextGenerators == DefineCollection \/ ToColumnDefs \/ ToFormConfig \/ ToFilterConfig

----------------------------------------------------------------------------
(* Columns: the collections toColumnDefs is checked on *)

\* the key of the i-th field of the generator schemas
GeneratorKeys ==
  << <<"n", "a", "m", "e">>, <<"p", "r", "i", "c", "e">>,
     <<"a", "c", "t", "i", "o", "n", "s">>, <<"n", "o", "t", "e", "s">>,
     <<"e", "m", "a", "i", "l">> >>

ColumnField(i) ==
  Field(GeneratorKeys[i],
        Node(<<>>, IF i = 2 THEN PlainDef("number") ELSE PlainDef("string"), NoMeta))

\* the per-field overrides tried for the columns
ColumnOverrides ==
  { <<>>, [visible |-> False], [hidden |-> True], [detailOnly |-> True],
    [order |-> Num(1)], [order |-> Num(1000)] }

Operation(name, scope) ==
  [name |-> Str(name), label |-> Str(name), scope |-> Str(scope)]

\* config.operations as tried
OperationLists ==
  { Absent,
    List(<< Operation("archive", "item") >>),
    List(<< Operation("export", "collection"), Operation("archive", "item"),
            Operation("clone", "item") >>),
    List(<< Operation("merge", "selection") >>) }

InitColumns ==
  /\ pc = "start"
  /\ \E m \in 0..MaxFields :
       /\ schema = [i \in 1..m |-> ColumnField(i)]
       /\ \E overrides \in [1..m -> ColumnOverrides],
             selectable \in {Absent, False, Str("single")},
             operations \in OperationLists :
            config = Present([fields |-> Obj([key \in ShapeKeys(schema) |->
                                               Obj(overrides[CHOOSE i \in 1..m :
                                                               schema[i].key = key])]),
                              affordances |-> Obj(Present([selectable |-> selectable])),
                              operations |-> operations])
  /\ trace = <<>>
  /\ collection = <<>>
  /\ NoOutputNoFiles

SpecColumns == InitColumns /\ [][NextGenerators]_vars

----------------------------------------------------------------------------
(* C12 *)

Columns == output.value

ColumnsMade == Done /\ output # <<>> /\ output.fn = "toColumnDefs"

\* 1 when the collection is selectable, else 0
SelectCount == IF collection.affordances["selectable"] \in {False, Undef, Null} THEN 0 ELSE 1

ItemOperations == {i \in 1..Len(collection.operations.q) :
                     collection.operations.q[i]["scope"] = Str("item")}

\* the fields that are visible, not hidden and not detail-only
ShownFields ==
  {i \in Fields : /\ Get(Resolved(i), "visible") # False
                  /\ Get(Resolved(i), "hidden") \in {False, Undef}
                  /\ Get(Resolved(i), "detailOnly") \in {False, Undef}}

\* the order of a field, 999 when it has none
OrderOf(i) == IF Get(Resolved(i), "order") = Undef THEN 999 ELSE Resolved(i)["order"].n

IsDataColumn(column) == "accessorKey" \in DOMAIN column

IsDisplayColumn(column, id) ==
  ~IsDataColumn(column) /\ column.id = Text(id) /\ column.meta.zodType = Str("display")

\* the positions, among the data columns, of the column of field i
PositionsOf(i) ==
  {k \in 1..Cardinality(ShownFields) :
     /\ SelectCount + k <= Len(Columns)
     /\ IsDataColumn(Columns[SelectCount + k])
     /\ Columns[SelectCount + k].accessorKey = Text(schema[i].key)}

\* C12: toColumnDefs returns a select column iff the collection is selectable,
\* then exactly one data column for each field that is visible, not hidden and
\* not detail-only, by ascending order (999 without an order, ties in
\* declaration order), then an actions column iff there is an item-scoped
\* operation, of size 60 + (n-1)*32 for n item-scoped operations.
C12_ColumnsInOrder ==
  ColumnsMade =>
    LET n == Cardinality(ItemOperations)
        shown == Cardinality(ShownFields)
    IN  /\ Len(Columns) = SelectCount + shown + (IF n > 0 THEN 1 ELSE 0)
        /\ SelectCount = 1 => IsDisplayColumn(Columns[1], SelectId)
        /\ \A i \in ShownFields : Cardinality(PositionsOf(i)) = 1
        /\ \A i, j \in ShownFields :
             (OrderOf(i) < OrderOf(j) \/ (OrderOf(i) = OrderOf(j) /\ i < j))
               => \A k \in PositionsOf(i), l \in PositionsOf(j) : k < l
        /\ n > 0 => /\ IsDisplayColumn(Columns[Len(Columns)], ActionsId)
                    /\ Columns[Len(Columns)].size = Num(60 + (n - 1) * 32)

\* a selectable collection with two item-scoped operations, a field left out,
\* and a later field whose order puts its column before an earlier field's
C12_Witness ==
  /\ ColumnsMade
  /\ SelectCount = 1
  /\ Cardinality(ItemOperations) = 2
  /\ Columns[Len(Columns)].size = Num(92)
  /\ ShownFields # Fields
  /\ \E i, j \in ShownFields :
       /\ i < j
       /\ OrderOf(j) < OrderOf(i)
       /\ \A k \in PositionsOf(i), l \in PositionsOf(j) : l < k

----------------------------------------------------------------------------
(* Forms: the collections toFormConfig is checked on *)

\* def.entries of z.enum(['draft', 'live'])
StringEntries ==
  << [key |-> "draft", value |-> Text(<<"d", "r", "a", "f", "t">>)],
     [key |-> "live", value |-> Text(<<"l", "i", "v", "e">>)] >>

\* def.entries of the enum object of `enum Level { Low, High }`: the reverse
\* mappings 0 and 1 come first in the object's property order
NumericEntries ==
  << [key |-> "0", value |-> Text(<<"L", "o", "w">>)],
     [key |-> "1", value |-> Text(<<"H", "i", "g", "h">>)],
     [key |-> "Low", value |-> Num(0)],
     [key |-> "High", value |-> Num(1)] >>

\* the def of an enum with the given entries
EnumDef(entries) == Put(PlainDef("enum"), "entries", entries)

\* the i-th field of the form schemas
FormSchemaField(i) ==
  IF i = 1 THEN Field(<<"n", "a", "m", "e">>, Node(<<>>, PlainDef("string"), NoMeta))
  ELSE IF i = 2 THEN Field(<<"i", "d">>, Node(<<>>, PlainDef("string"), NoMeta))
  ELSE IF i = 3 THEN Field(<<"s", "t", "a", "t", "u", "s">>,
                           Node(<<"optional">>, EnumDef(StringEntries), NoMeta))
  ELSE IF i = 4 THEN Field(<<"p", "a", "s", "s", "w", "o", "r", "d">>,
                           Node(<<>>, PlainDef("string"), NoMeta))
  ELSE Field(<<"l", "e", "v", "e", "l">>, Node(<<>>, EnumDef(NumericEntries), NoMeta))

\* every combination of the properties the form looks at, and of visible
FormOverridesAll ==
  { Present(choice) :
      choice \in [editable : {Absent, False}, requiredOnCreate : {Absent, True},
                  hidden : {Absent, True}, readable : {Absent, False},
                  immutableAfterCreate : {Absent, True}, visible : {Absent, False}] }

\* the overrides tried on the schemas of several fields
FormOverridesFew ==
  { <<>>, [editable |-> False], [editable |-> False, requiredOnCreate |-> True],
    [order |-> Num(0)], [order |-> Num(1)] }

FieldsConfig(shape, overrides) ==
  [fields |-> Obj([key \in ShapeKeys(shape) |->
                     Obj(overrides[CHOOSE i \in 1..Len(shape) : shape[i].key = key])])]

InitForm ==
  /\ pc = "start"
  /\ \/ \E i \in 1..5, override \in FormOverridesAll :
          /\ schema = << FormSchemaField(i) >>
          /\ config = FieldsConfig(schema, << override >>)
     \/ \E m \in 2..MaxFields :
          /\ schema = [i \in 1..m |-> FormSchemaField(i)]
          /\ \E overrides \in [1..m -> FormOverridesFew] :
               config = FieldsConfig(schema, overrides)
  /\ trace = <<>>
  /\ collection = <<>>
  /\ NoOutputNoFiles

SpecForm == InitForm /\ [][NextGenerators]_vars

----------------------------------------------------------------------------
(* C13 *)

FormMade == Done /\ output # <<>> /\ output.fn = "toFormConfig" /\ ~output.threw

\* the entries of the returned form that are about field i
FormEntriesOf(i) == {k \in 1..Len(output.value) : output.value[k].name = Text(schema[i].key)}

IsSet(v) == v \notin {False, Undef, Null}

\* the inclusion rule of the two modes
ClaimedInForm(i, mode) ==
  LET fa == Resolved(i)
  IN  /\ ~IsSet(Get(fa, "hidden"))
      /\ mode = "create" =>
           (Get(fa, "editable") # False \/ IsSet(Get(fa, "requiredOnCreate")))
      /\ mode = "edit" =>
           /\ Get(fa, "editable") # False
           /\ ~IsSet(Get(fa, "immutableAfterCreate"))
           /\ Get(fa, "readable") # False

----------------------------------------------------------------------------
(* Filters: the collections toFilterConfig is checked on *)

\* Number.MAX_SAFE_INTEGER and its negative, which Zod reports for a number
\* schema without a bound
MaxSafeInteger == [k |-> "num", s |-> "MAX_SAFE_INTEGER", n |-> 0, q |-> <<>>, o |-> <<>>]

MinSafeInteger == [k |-> "num", s |-> "-MAX_SAFE_INTEGER", n |-> 0, q |-> <<>>, o |-> <<>>]

\* a number schema with its minValue and maxValue properties and the checks
\* of its def
NumberDef(minValue, maxValue, numChecks) ==
  Put(Put(Put(PlainDef("number"), "minValue", minValue), "maxValue", maxValue),
      "numChecks", numChecks)

NumberDefs ==
  { PlainDef("number"),
    NumberDef(Num(0), MaxSafeInteger, <<>>),
    NumberDef(MinSafeInteger, Num(9), << [kind |-> "min", value |-> Num(5)],
                                         [kind |-> "max", value |-> Num(7)],
                                         [kind |-> "min", value |-> Num(6)] >>) }

\* the i-th field of the filter schemas
FilterSchemaFields(i) ==
  IF i = 1 THEN { Field(<<"s", "t", "a", "t", "u", "s">>,
                        Node(ws, EnumDef(StringEntries), NoMeta)) :
                    ws \in {<<>>, <<"optional">>} }
  ELSE IF i = 2 THEN { Field(<<"p", "r", "i", "c", "e">>, Node(<<>>, def, NoMeta)) :
                         def \in NumberDefs }
  ELSE IF i = 3 THEN { Field(<<"n", "a", "m", "e">>, Node(<<>>, PlainDef("string"), NoMeta)) }
  ELSE IF i = 4 THEN { Field(<<"i", "d">>, Node(<<>>, PlainDef("string"), NoMeta)) }
  ELSE { Field(<<"l", "e", "v", "e", "l">>, Node(<<>>, EnumDef(NumericEntries), NoMeta)) }

\* the values of filterable tried on a schema of one field
FilterOverridesAll ==
  { Present([filterable |-> f]) :
      f \in {Absent, False, True, Undef, Str("select"), Str("multiSelect"), Str("range"),
             Str("search")} }

\* the overrides tried on the schemas of several fields
FilterOverridesFew ==
  { <<>>, [filterable |-> False], [filterable |-> Str("range")],
    [filterable |-> Str("multiSelect")] }

InitFilter ==
  /\ pc = "start"
  /\ \/ \E i \in 1..5, override \in FilterOverridesAll :
          /\ \E field \in FilterSchemaFields(i) : schema = << field >>
          /\ config = FieldsConfig(schema, << override >>)
     \/ \E m \in 2..MaxFields :
          /\ schema \in { s \in [1..m -> UNION {FilterSchemaFields(i) : i \in 1..m}] :
                            \A i \in 1..m : s[i] \in FilterSchemaFields(i) }
          /\ \E overrides \in [1..m -> FilterOverridesFew] :
               config = FieldsConfig(schema, overrides)
  /\ trace = <<>>
  /\ collection = <<>>
  /\ NoOutputNoFiles

SpecFilter == InitFilter /\ [][NextGenerators]_vars

----------------------------------------------------------------------------
(* C14 *)

FilterCalled == Done /\ output # <<>> /\ output.fn = "toFilterConfig"

Filters == output.value

FilterableFields == {i \in Fields : Get(Resolved(i), "filterable") # False}

\* the k-th filterable field, in declaration order
NthFilterable(k) ==
  CHOOSE i \in FilterableFields : Cardinality({j \in FilterableFields : j < i}) = k - 1

IsEnumField(i) ==
  unwrapZodSchema(schema[i].node).terminal.hasDef
    /\ unwrapZodSchema(schema[i].node).terminal.type = "enum"

\* the numeral of the numbers the enums use
Numeral == [n \in 0..1 |-> IF n = 0 THEN "0" ELSE "1"]

\* the members of the enum of field i, in declaration order: the entries of its
\* enum object but for the reverse mappings of the numeric members
EnumMembers(i) ==
  LET entries == unwrapZodSchema(schema[i].node).terminal.entries
      IsReverse(e) == \E k \in 1..Len(entries) :
                         /\ entries[k].value.k = "num"
                         /\ Numeral[entries[k].value.n] = e.key
      members == SelectSeq(entries, LAMBDA e : ~IsReverse(e))
  IN  [k \in 1..Len(members) |-> members[k].value]

\* the entry is as the claim describes it for field i
ClaimedFilterEntry(entry, i) ==
  /\ entry.name = Text(schema[i].key)
  /\ entry.options # Undef =>
       /\ entry.filterType \in {Str("select"), Str("multiSelect")}
       /\ IsEnumField(i)
       /\ Len(entry.options.q) = Len(EnumMembers(i))
       /\ \A k \in 1..Len(EnumMembers(i)) : entry.options.q[k].value = EnumMembers(i)[k]
  /\ entry.bounds # Undef => entry.filterType = Str("range")

\* C14: toFilterConfig emits exactly one entry per field whose resolved
\* filterable is not false, in declaration order; an entry carries options only
\* when its filter type is select or multiSelect and the field is an enum (one
\* option per enum member, in declaration order, valued by the member), and
\* carries bounds only when its filter type is range.
C14_FilterEntries ==
  FilterCalled =>
    /\ ~output.threw
    /\ Len(Filters) = Cardinality(FilterableFields)
    /\ \A k \in 1..Len(Filters) : ClaimedFilterEntry(Filters[k], NthFilterable(k))

\* C14, for the calls that return: the entries, their order, and what carries
\* options and bounds are as stated
C14_FilterEntriesWhenReturned ==
  (FilterCalled /\ ~output.threw) =>
    /\ Len(Filters) = Cardinality(FilterableFields)
    /\ \A k \in 1..Len(Filters) : ClaimedFilterEntry(Filters[k], NthFilterable(k))

\* a returned filter configuration with options on an enum field, bounds on a
\* range filter, and a field left out
C14_Reached ==
  /\ FilterCalled /\ ~output.threw
  /\ FilterableFields # Fields
  /\ \E k \in 1..Len(Filters) : Filters[k].options # Undef
  /\ \E k \in 1..Len(Filters) :
       /\ Filters[k].bounds = Obj([min |-> Num(5), max |-> Num(9)])
       /\ Filters[k].options = Undef

----------------------------------------------------------------------------
(* Code generation: the configuration object toCode writes out *)

FIELD_PROP_ORDER ==
  { "title", "description",
    "sortable", "filterable", "searchable", "groupable", "aggregatable",
    "readable", "editable", "inlineEditable",
    "requiredOnCreate", "requiredOnUpdate", "immutableAfterCreate",
    "visible", "hidden", "detailOnly", "summaryField",
    "columnWidth", "minWidth", "maxWidth", "resizable", "pinned", "order",
    "displayFormat", "badge", "copyable", "truncate", "tooltip",
    "editWidget", "editPlaceholder", "editHelp" }

COMPUTED_PROPS == {"zodType", "zodDef"}

\* the properties of an object that are not undefined
Defined(props) == [p \in {x \in DOMAIN props : props[x] # Undef} |-> props[p]]

\* filterUndefined
filterUndefined(props) == Defined(props)

\* what JSON.stringify keeps of a value: the properties that are undefined
\* are left out, at every depth
RECURSIVE JsonForm(_)
JsonForm(v) ==
  IF v.k = "obj"
  THEN Obj([p \in DOMAIN Defined(v.o) |-> JsonForm(v.o[p])])
  ELSE v

\* typeof
TypeOf(v) ==
  IF v.k \in {"str", "text"} THEN "string"
  ELSE IF v.k = "num" THEN "number"
  ELSE IF v.k = "bool" THEN "boolean"
  ELSE IF v.k = "undefined" THEN "undefined"
  ELSE "object"

\* valueEqual.  Two objects that reach it are never the same reference unless
\* they are equal, so a === b is the equality of the values for the
\* primitives and is decided by the JSON text for the objects.
valueEqual(a, b) ==
  IF TypeOf(a) # "object" /\ a = b THEN TRUE
  ELSE IF Nullish(a) \/ Nullish(b) THEN a = b
  ELSE IF TypeOf(a) # TypeOf(b) THEN FALSE
  ELSE IF TypeOf(a) = "object" THEN JsonForm(a) = JsonForm(b)
  ELSE FALSE

\* the inferred affordances a field is compared against, the title being
\* inferred.title ?? humanizeFieldName(key)
Baseline(inferred, key) ==
  Put(inferred, "title", Coalesce(Get(inferred, "title"), humanizeFieldName(key)))

\* the properties of fa that are written against a baseline
DiffAgainst(fa, baseline) ==
  [prop \in {p \in FIELD_PROP_ORDER : /\ Get(fa, p) # Undef
                                          /\ ~valueEqual(Get(fa, p), Get(baseline, p))}
     |-> fa[prop]]

\* the properties written for a field in diffOnly mode
DiffProps(key, fa, fieldSchema) ==
  DiffAgainst(fa, Baseline(inferFieldAffordances(key, fieldSchema), key))

\* the properties written for a field in full mode
FullProps(fa) ==
  [prop \in {p \in DOMAIN fa : fa[p] # Undef /\ p \notin COMPUTED_PROPS} |-> fa[prop]]

\* if (Object.keys(props).length > 0) fields[key] = props
FieldsObject(entries) ==
  LET kept == SelectSeq(entries, LAMBDA e : DOMAIN e.props # {})
  IN  [key \in {kept[i].key : i \in 1..Len(kept)} |->
         Obj(kept[CHOOSE i \in 1..Len(kept) : kept[i].key = key].props)]

\* a diffOnly mode that compares against nothing: it writes what full mode writes
buildFieldsObjectNoBaseline(coll, shape, diffOnly) ==
  FieldsObject([i \in 1..Len(coll.fieldAffordances) |->
                  [key |-> coll.fieldAffordances[i].key,
                   props |-> FullProps(coll.fieldAffordances[i].fa)]])

\* buildFieldsObject: the fields that have a property to write
buildFieldsObject(coll, shape, diffOnly) ==
  FieldsObject([i \in 1..Len(coll.fieldAffordances) |->
                  [key |-> coll.fieldAffordances[i].key,
                   props |-> IF diffOnly
                             THEN DiffProps(coll.fieldAffordances[i].key,
                                            coll.fieldAffordances[i].fa,
                                            FieldSchemaOf(shape, coll.fieldAffordances[i].key))
                             ELSE FullProps(coll.fieldAffordances[i].fa)]])

OPERATION_PROPS == {"icon", "variant", "confirm", "keyboardShortcut"}

\* buildOperationObject
buildOperationObject(op) ==
  [p \in {"name", "label", "scope"} \cup {x \in OPERATION_PROPS : Get(op, x) # Undef}
     |-> Get(op, p)]

\* buildConfigObject: the sections that are not empty
ConfigObject(coll, affordances, fields, operations) ==
  [p \in {"idField", "labelField"}
          \cup (IF DOMAIN affordances # {} THEN {"affordances"} ELSE {})
          \cup (IF DOMAIN fields # {} THEN {"fields"} ELSE {})
          \cup (IF Len(operations) > 0 THEN {"operations"} ELSE {}) |->
     IF p = "idField" THEN coll.idField
     ELSE IF p = "labelField" THEN coll.labelField
     ELSE IF p = "affordances" THEN Obj(affordances)
     ELSE IF p = "fields" THEN Obj(fields)
     ELSE List(operations)]

\* buildConfigObject
buildConfigObject(coll, shape, diffOnly) ==
  ConfigObject(coll,
               filterUndefined(coll.affordances),
               buildFieldsObject(coll, shape, diffOnly),
               [i \in 1..Len(coll.operations.q) |->
                  buildOperationObject(coll.operations.q[i])])

----------------------------------------------------------------------------
(* Serialization: values to TypeScript source text, and the text read back *)

Quote == "'"

Backslash == "\\"

Newline == "\n"

\* s.replace(/\\/g, '\\\\').replace(/'/g, "\\'")
RECURSIVE Escape(_)
Escape(chars) ==
  IF chars = <<>> THEN <<>>
  ELSE IF Head(chars) \in {Backslash, Quote}
       THEN << Backslash, Head(chars) >> \o Escape(Tail(chars))
       ELSE << Head(chars) >> \o Escape(Tail(chars))

\* quote: the single-quoted literal of a string
quote(chars) == << Quote >> \o Escape(chars) \o << Quote >>

\* /^[a-zA-Z_$][a-zA-Z0-9_$]*$/
isValidIdentifier(chars) ==
  /\ chars # <<>>
  /\ IsLower(chars[1]) \/ IsUpper(chars[1]) \/ chars[1] \in {"_", "$"}
  /\ \A i \in 2..Len(chars) : IsWordChar(chars[i]) \/ chars[i] = "$"

\* the source text of a string: its literal, kept apart from the string itself
Literal(source) == [k |-> "literal", s |-> "", n |-> 0, q |-> source, o |-> <<>>]

\* serialize, but for the layout: a string becomes its literal, the undefined
\* properties of an object are left out, the other values are written as they
\* are.  The items of an array of objects are the objects' properties.
RECURSIVE serialize(_)
serialize(v) ==
  IF v.k = "text" THEN Literal(quote(v.q))
  ELSE IF v.k = "obj" THEN Obj([p \in DOMAIN Defined(v.o) |-> serialize(v.o[p])])
  ELSE IF v.k = "arr" /\ v.q # <<>>
       THEN List([i \in 1..Len(v.q) |->
                    [p \in DOMAIN Defined(v.q[i]) |-> serialize(v.q[i][p])]])
       ELSE v

\* the key of a property: written as it is, or quoted
SerializeKey(key) == IF isValidIdentifier(key) THEN key ELSE quote(key)

\* the serialized config object; the keys of its fields object are field keys
SerializeConfig(configObj) ==
  [p \in DOMAIN configObj |->
     IF p = "fields"
     THEN Obj([k \in {SerializeKey(key) : key \in DOMAIN configObj["fields"].o} |->
                 serialize(configObj["fields"].o[CHOOSE key \in DOMAIN configObj["fields"].o :
                                                   SerializeKey(key) = k])])
     ELSE serialize(configObj[p])]

\* the options of toCode over their defaults
CodegenDefaults ==
  [header |-> True, imports |-> True, exportName |-> Str("config"), indent |-> Num(2),
   diffOnly |-> False, importFrom |-> Str("zod-collection-ui")]

\* toCode: the sections of the text.  The layout of the serialized object is
\* a function of the object and of opts.indent, which is kept with it.
toCode(coll, shape, options) ==
  LET opts == Merge(CodegenDefaults, options)
  IN  [header |-> IF ~Falsy(opts["header"])
                  THEN << [fieldNames |-> [i \in 1..Len(coll.fieldAffordances) |->
                                             coll.fieldAffordances[i].key],
                           exportName |-> opts["exportName"]] >>
                  ELSE <<>>,
       imports |-> IF ~Falsy(opts["imports"]) THEN << opts["importFrom"] >> ELSE <<>>,
       exportName |-> opts["exportName"],
       indent |-> opts["indent"],
       config |-> SerializeConfig(buildConfigObject(coll, shape, ~Falsy(opts["diffOnly"])))]

\* the string a single-quoted literal denotes, read from position i on; a
\* line break inside the quotes ends the reading with an error
RECURSIVE ReadLiteral(_, _)
ReadLiteral(source, i) ==
  IF i > Len(source) THEN [ok |-> FALSE, value |-> <<>>]
  ELSE IF source[i] = Newline THEN [ok |-> FALSE, value |-> <<>>]
  ELSE IF source[i] = Quote THEN [ok |-> i = Len(source), value |-> <<>>]
  ELSE IF source[i] = Backslash
       THEN IF i + 1 > Len(source) THEN [ok |-> FALSE, value |-> <<>>]
            ELSE LET rest == ReadLiteral(source, i + 2)
                     char == IF source[i + 1] = "n" THEN Newline ELSE source[i + 1]
                 IN  [ok |-> rest.ok, value |-> << char >> \o rest.value]
       ELSE LET rest == ReadLiteral(source, i + 1)
            IN  [ok |-> rest.ok, value |-> << source[i] >> \o rest.value]

\* the literal is a well-formed single-quoted string literal
WellFormed(source) ==
  /\ Len(source) >= 2
  /\ source[1] = Quote
  /\ ReadLiteral(source, 2).ok

\* every string literal of the serialized value is well-formed
RECURSIVE Compiles(_)
Compiles(v) ==
  IF v.k = "literal" THEN WellFormed(v.q)
  ELSE IF v.k = "obj" THEN \A p \in DOMAIN v.o : Compiles(v.o[p])
  ELSE IF v.k = "arr" /\ v.q # <<>>
       THEN \A i \in 1..Len(v.q) : \A p \in DOMAIN v.q[i] : Compiles(v.q[i][p])
       ELSE TRUE

\* the value a serialized value denotes
RECURSIVE Evaluate(_)
Evaluate(v) ==
  IF v.k = "literal" THEN Text(ReadLiteral(v.q, 2).value)
  ELSE IF v.k = "obj" THEN Obj([p \in DOMAIN v.o |-> Evaluate(v.o[p])])
  ELSE IF v.k = "arr" /\ v.q # <<>>
       THEN List([i \in 1..Len(v.q) |-> [p \in DOMAIN v.q[i] |-> Evaluate(v.q[i][p])]])
       ELSE v

\* a key as written, read back
EvaluateKey(k) == IF k # <<>> /\ k[1] = Quote THEN ReadLiteral(k, 2).value ELSE k

\* the generated module compiles: the literals of its config object do
ModuleCompiles(text) ==
  /\ \A p \in DOMAIN text.config \ {"fields"} : Compiles(text.config[p])
  /\ "fields" \in DOMAIN text.config =>
       \A k \in DOMAIN text.config["fields"].o :
          /\ Compiles(text.config["fields"].o[k])
          /\ k[1] = Quote => WellFormed(k)

\* the config object the generated module exports
ExportedConfig(text) ==
  [p \in DOMAIN text.config |->
     IF p = "fields"
     THEN Obj([key \in {EvaluateKey(k) : k \in DOMAIN text.config["fields"].o} |->
                 Evaluate(text.config["fields"].o[CHOOSE k \in DOMAIN text.config["fields"].o :
                                                    EvaluateKey(k) = key])])
     ELSE Evaluate(text.config[p])]

----------------------------------------------------------------------------
(* The code generator calls, and the collections they are checked on *)

\* the options toCode is called with
CodegenOptions ==
  { <<>>, [diffOnly |-> True], [diffOnly |-> True, header |-> False, imports |-> False] }

ToCode ==
  /\ pc = "done"
  /\ \E options \in CodegenOptions :
       output' = [fn |-> "toCode", options |-> options,
                  text |-> toCode(collection, schema, options)]
  /\ UNCHANGED <<pc, schema, config, trace, collection, disk, calls, provider, store, hook>>

\* the exported config of the generated module, passed to defineCollection
\* with the same schema; a module that does not compile exports nothing
Redefine ==
  /\ pc = "done"
  /\ output # <<>>
  /\ output.fn = "toCode"
  /\ output' = [fn |-> "redefine", options |-> output.options,
                compiled |-> ModuleCompiles(output.text),
                value |-> IF ModuleCompiles(output.text)
                          THEN defineCollection(schema, ExportedConfig(output.text))
                          ELSE <<>>]
  /\ UNCHANGED <<pc, schema, config, trace, collection, disk, calls, provider, store, hook>>

NextCodegen == DefineCollection \/ ToCode \/ Redefine

CodegenKeys == { <<"n", "a", "m", "e">>, <<"i", "d">>, <<"a", "-", "b">> }

CodegenMetas ==
  { NoMeta,
    [has |-> TRUE, m |-> [title |-> Text(<<"M">>),
                          affordances |-> Obj([badge |-> Obj([live |-> Str("success")]),
                                               order |-> Num(2)])]] }

CodegenNodes(meta) ==
  { Node(<<>>, PlainDef("string"), meta), Node(<<"optional">>, PlainDef("number"), meta) }

\* the per-field overrides tried: plain values, values equal to the inferred
\* ones, strings with a quote, a backslash or a line break, and properties
\* given as undefined
CodegenOverrides ==
  { Present(choice) :
      choice \in [title : {Absent, Text(<<"L">>), Text(<<"O", Quote, "N">>), Undef},
                  description : {Absent, Text(<<"a", Newline, "b">>), Text(<<"a", Backslash>>)},
                  sortable : {Absent, False, Undef, Str("both")},
                  badge : {Absent, Obj([live |-> Str("success")])}] }

\* config.affordances and config.operations as tried
CodegenExtras ==
  { Present([affordances |-> affordances, operations |-> operations]) :
      affordances \in {Absent, Obj([search |-> Undef]),
                       Obj([bulkDelete |-> True,
                            pagination |-> Obj([defaultPageSize |-> Num(50)])])},
      operations \in {Absent,
                      List(<< Operation("archive", "item") >>),
                      List(<< Put(Operation("export", "collection"), "icon", Undef),
                              Put(Operation("delete", "item"), "confirm",
                                  Obj([title |-> Text(<<"O", Quote, "K">>),
                                       message |-> Str("Are you sure?")])) >>)} }

InitCodegen ==
  /\ pc = "start"
  /\ \/ \E key \in CodegenKeys, meta \in CodegenMetas, override \in CodegenOverrides :
          /\ \E node \in CodegenNodes(meta) : schema = << Field(key, node) >>
          /\ config = FieldsConfig(schema, << override >>)
     \/ /\ schema \in LabelShapes
        /\ config \in CodegenExtras
  /\ trace = <<>>
  /\ collection = <<>>
  /\ NoOutputNoFiles

SpecCodegen == InitCodegen /\ [][NextCodegen]_vars

----------------------------------------------------------------------------
(* C15 *)

CodeMade == Done /\ output # <<>> /\ output.fn = "toCode"

DiffOnly == Get(output.options, "diffOnly") = True

\* the configuration gives no per-field override
NoFieldOverrides == \A i \in Fields : NoOverrides(i)

\* C15: for a collection built without explicit overrides, the text toCode
\* generates in diffOnly mode has no fields block, and it holds every
\* collection-level affordance and every operation of the collection.
C15_DiffOnlyNoFields ==
  (CodeMade /\ DiffOnly /\ NoFieldOverrides) =>
    /\ "fields" \notin DOMAIN output.text.config
    /\ "affordances" \in DOMAIN output.text.config
    /\ \A p \in DOMAIN collection.affordances :
         collection.affordances[p] # Undef =>
           /\ p \in DOMAIN output.text.config["affordances"].o
           /\ Evaluate(output.text.config["affordances"].o[p]) = JsonForm(collection.affordances[p])
    /\ Len(collection.operations.q) > 0 =>
         /\ "operations" \in DOMAIN output.text.config
         /\ Len(output.text.config["operations"].q) = Len(collection.operations.q)
         /\ \A i \in 1..Len(collection.operations.q) :
              \A p \in DOMAIN Defined(collection.operations.q[i]) :
                 /\ p \in DOMAIN output.text.config["operations"].q[i]
                 /\ Evaluate(output.text.config["operations"].q[i][p])
                      = JsonForm(collection.operations.q[i][p])

\* a diffOnly text without a fields block for a schema of several fields, one
\* of them refined by a name heuristic, with operations and a changed affordance
C15_Witness ==
  /\ CodeMade /\ DiffOnly /\ NoFieldOverrides
  /\ Len(schema) >= 2
  /\ \E i \in Fields : schema[i].key = <<"i", "d">>
  /\ "fields" \notin DOMAIN output.text.config
  /\ "operations" \in DOMAIN output.text.config
  /\ Len(output.text.config["operations"].q) = 2
  /\ output.text.config["affordances"].o["bulkDelete"] = True

----------------------------------------------------------------------------
(* C16 *)

Redefined == Done /\ output # <<>> /\ output.fn = "redefine"

\* a collection definition but for its properties that are undefined
Observable(coll) ==
  [affordances |-> JsonForm(Obj(coll.affordances)),
   fieldAffordances |-> [i \in 1..Len(coll.fieldAffordances) |->
                           [key |-> coll.fieldAffordances[i].key,
                            fa |-> JsonForm(Obj(coll.fieldAffordances[i].fa))]],
   operations |-> [i \in 1..Len(coll.operations.q) |-> Defined(coll.operations.q[i])],
   idField |-> coll.idField,
   labelField |-> coll.labelField]

\* C16: the configuration that toCode exports for a collection, in full or in
\* diffOnly mode, passed back to defineCollection with the same schema, gives
\* a collection with the same fieldAffordances, affordances, operations,
\* idField and labelField.
C16_RoundTrip ==
  Redefined => /\ output.compiled
               /\ Observable(output.value) = Observable(collection)

\* an override or an affordance given as undefined
GivesUndefined ==
  \/ \E i \in Fields : \E p \in DOMAIN OverrideOf(i) : OverrideOf(i)[p] = Undef
  \/ \E p \in DOMAIN PatchGiven : PatchGiven[p] = Undef

\* C16, for the configurations that give no property as undefined and the
\* texts that compile: the round trip gives the same collection
C16_RoundTripOfDefinedValues ==
  (Redefined /\ output.compiled /\ ~GivesUndefined) =>
    Observable(output.value) = Observable(collection)

\* a round trip that gives the collection back, through a text with a quoted
\* key, an escaped quote and a property that differs from the inferred one
C16_Reached ==
  /\ Redefined /\ output.compiled
  /\ Observable(output.value) = Observable(collection)
  /\ schema[1].key = <<"a", "-", "b">>
  /\ Resolved(1)["title"] = Text(<<"O", Quote, "N">>)
  /\ Get(Resolved(1), "sortable") = False


----------------------------------------------------------------------------
(* writeIfChanged and generateAndWrite *)

\* The text of a file and the content of a call are sequences of units.  A
\* unit of a string is one UTF-16 code unit, or a run of ASCII characters
\* written as one token; a unit of a file is the UTF-8 encoding of such a
\* unit, or a byte that belongs to no well-formed UTF-8 sequence.
LoneSurrogate == "uD800"

ReplacementChar == "uFFFD"

InvalidByte == "xFF"

\* 'utf-8' of writeFile: a lone surrogate has no UTF-8 encoding and is
\* written as the encoding of U+FFFD
Encode(content) ==
  [i \in 1..Len(content) |->
     IF content[i] = LoneSurrogate THEN ReplacementChar ELSE content[i]]

\* 'utf-8' of readFile: a byte that is part of no well-formed sequence is
\* read as U+FFFD
Decode(bytes) ==
  [i \in 1..Len(bytes) |->
     IF bytes[i] = InvalidByte THEN ReplacementChar ELSE bytes[i]]

\* the file system error codes other than ENOENT the calls are tried with
OtherErrors == {"EACCES"}

\* what a call can observe of the file: it exists, its bytes, its
\* modification time (the number of writes made so far)
Snapshot(d) == [exists |-> d.exists, bytes |-> d.bytes, mtime |-> d.mtime]

\* a call enters writeIfChanged; the calls in flight are no longer alone
NewCall(fn, content) ==
  [fn |-> fn, content |-> content, pc |-> "readFile", existing |-> <<>>,
   err |-> "", written |-> FALSE, reason |-> "", steps |-> <<>>,
   alone |-> \A j \in 1..Len(calls) : calls[j].pc \in {"returned", "thrown"},
   before |-> Snapshot(disk), after |-> Snapshot(disk)]

InFlight(c) == c.pc \notin {"returned", "thrown"}

Enter(fn, content) ==
  calls' = Append([j \in 1..Len(calls) |->
                     IF InFlight(calls[j]) THEN [calls[j] EXCEPT !.alone = FALSE]
                     ELSE calls[j]],
                  NewCall(fn, content))

\* one file system step of a call, with the error it raised ("" for none)
Step(op, err) == [op |-> op, err |-> err]

\* return { written, reason, filePath }
Return(c, written, reason, op, d) ==
  [c EXCEPT !.pc = "returned", !.written = written, !.reason = reason,
            !.steps = IF op = "" THEN @ ELSE Append(@, Step(op, "")),
            !.after = Snapshot(d)]

\* throw err
Throw(c, op, err) ==
  [c EXCEPT !.pc = "thrown", !.err = err, !.steps = Append(@, Step(op, err)),
            !.after = Snapshot(disk)]

\* a catch block that takes every error for a missing file
CatchAll(c, op, err) ==
  [c EXCEPT !.pc = "mkdir", !.steps = Append(@, Step(op, err))]

\* catch (err) { if (err.code === 'ENOENT') { ... } throw err; }
Catch(c, op, err) ==
  IF err = "ENOENT"
  THEN [c EXCEPT !.pc = "mkdir", !.steps = Append(@, Step(op, err))]
  ELSE Throw(c, op, err)

\* a write that keeps what another call wrote
WrittenUnlessTaken(i) ==
  IF disk.last \notin {0, i} THEN [disk EXCEPT !.mtime = @ + 1]
  ELSE [disk EXCEPT !.exists = TRUE, !.bytes = Encode(calls[i].content),
                    !.mtime = @ + 1, !.last = i]

\* fs.writeFile(filePath, content, 'utf-8') succeeding for call i
Written(i) ==
  [disk EXCEPT !.exists = TRUE, !.bytes = Encode(calls[i].content),
               !.mtime = @ + 1, !.last = i]

\* a comparison that finds every file unchanged
AlwaysUnchanged(c) == TRUE

\* a comparison that never finds the file unchanged
NeverUnchanged(c) == FALSE

\* existing === content
Unchanged(c) == c.existing = c.content

\* const existing = await fs.readFile(filePath, 'utf-8')
ReadFile(i) ==
  /\ calls[i].pc = "readFile"
  /\ \/ /\ ~disk.exists
        /\ calls' = [calls EXCEPT ![i] = Catch(@, "readFile", "ENOENT")]
     \/ /\ disk.exists
        /\ calls' = [calls EXCEPT ![i] = [@ EXCEPT !.pc = "compare",
                                                   !.existing = Decode(disk.bytes),
                                                   !.steps = Append(@, Step("readFile", ""))]]
     \/ \E err \in OtherErrors :
          calls' = [calls EXCEPT ![i] = Catch(@, "readFile", err)]
  /\ UNCHANGED <<pc, schema, config, trace, collection, output, disk, provider, store, hook>>

\* if (existing === content) return { written: false, reason: 'unchanged' }
Compare(i) ==
  /\ calls[i].pc = "compare"
  /\ calls' = [calls EXCEPT ![i] = IF Unchanged(@)
                                   THEN Return(@, FALSE, "unchanged", "", disk)
                                   ELSE [@ EXCEPT !.pc = "writeFile"]]
  /\ UNCHANGED <<pc, schema, config, trace, collection, output, disk, provider, store, hook>>

\* await fs.writeFile(filePath, content, 'utf-8'), inside the try block
WriteFile(i) ==
  /\ calls[i].pc = "writeFile"
  /\ \/ /\ ~disk.dir
        /\ calls' = [calls EXCEPT ![i] = Catch(@, "writeFile", "ENOENT")]
        /\ UNCHANGED disk
     \/ /\ disk.dir
        /\ disk' = Written(i)
        /\ calls' = [calls EXCEPT ![i] = Return(@, TRUE, "updated", "writeFile", disk')]
     \/ /\ \E err \in OtherErrors :
             calls' = [calls EXCEPT ![i] = Catch(@, "writeFile", err)]
        /\ UNCHANGED disk
  /\ UNCHANGED <<pc, schema, config, trace, collection, output, provider, store, hook>>

\* await fs.mkdir(dir, { recursive: true }), inside the catch block
Mkdir(i) ==
  /\ calls[i].pc = "mkdir"
  /\ \/ /\ disk' = [disk EXCEPT !.dir = TRUE]
        /\ calls' = [calls EXCEPT ![i] = [@ EXCEPT !.pc = "create",
                                                   !.steps = Append(@, Step("mkdir", ""))]]
     \/ /\ \E err \in OtherErrors :
             calls' = [calls EXCEPT ![i] = Throw(@, "mkdir", err)]
        /\ UNCHANGED disk
  /\ UNCHANGED <<pc, schema, config, trace, collection, output, provider, store, hook>>

\* await fs.writeFile(filePath, content, 'utf-8'), inside the catch block
CreateFile(i) ==
  /\ calls[i].pc = "create"
  /\ \/ /\ ~disk.dir
        /\ calls' = [calls EXCEPT ![i] = Throw(@, "writeFile", "ENOENT")]
        /\ UNCHANGED disk
     \/ /\ disk.dir
        /\ disk' = Written(i)
        /\ calls' = [calls EXCEPT ![i] = Return(@, TRUE, "created", "writeFile", disk')]
     \/ /\ \E err \in OtherErrors :
             calls' = [calls EXCEPT ![i] = Throw(@, "writeFile", err)]
        /\ UNCHANGED disk
  /\ UNCHANGED <<pc, schema, config, trace, collection, output, provider, store, hook>>

\* another process removes the file and its directory; the calls in flight
\* are no longer alone
Unlink ==
  /\ disk.dir
  /\ \E j \in 1..Len(calls) : InFlight(calls[j])
  /\ disk' = [disk EXCEPT !.dir = FALSE, !.exists = FALSE, !.bytes = <<>>, !.last = 0]
  /\ calls' = [j \in 1..Len(calls) |->
                 IF InFlight(calls[j]) THEN [calls[j] EXCEPT !.alone = FALSE]
                 ELSE calls[j]]
  /\ UNCHANGED <<pc, schema, config, trace, collection, output, provider, store, hook>>

\* the units of a serialized value, as serialize writes them one after the
\* other; the properties of an object in the order of its entries, which is
\* the same for the same object
RECURSIVE UnitsOf(_), UnitsOfProps(_, _)
UnitsOf(v) ==
  IF v.k = "literal" THEN v.q
  ELSE IF v.k = "obj" THEN << "{" >> \o UnitsOfProps(v.o, DOMAIN v.o) \o << "}" >>
  ELSE IF v.k = "arr" /\ v.q # <<>>
       THEN IF Len(v.q) = 1
            THEN << "[" >> \o UnitsOfProps(v.q[1], DOMAIN v.q[1]) \o << "]" >>
            ELSE << "[" >> \o UnitsOfProps(v.q[1], DOMAIN v.q[1]) \o << "," >>
                 \o UnitsOf([v EXCEPT !.q = Tail(v.q)])
       ELSE << v.k, v.s, ToString(v.n) >>

UnitsOfProps(props, remaining) ==
  IF remaining = {} THEN <<>>
  ELSE LET p == CHOOSE x \in remaining : TRUE
       IN  << p, ":" >> \o UnitsOf(props[p]) \o UnitsOfProps(props, remaining \ {p})

\* sections.join('\n'): the text of the generated module
SourceText(text) ==
  LET fields == IF "fields" \in DOMAIN text.config THEN text.config["fields"].o ELSE <<>>
      keys == IF "fields" \in DOMAIN text.config THEN DOMAIN fields ELSE {}
      key == CHOOSE k \in keys : TRUE
  IN  (IF text.header = <<>> THEN <<>>
       ELSE << "/**" >> \o text.header[1].fieldNames[1] \o << text.header[1].exportName.s >>)
      \o (IF text.imports = <<>> THEN <<>> ELSE << "import", text.imports[1].s >>)
      \o << "export", text.exportName.s, ToString(text.indent.n) >>
      \o UnitsOfProps(text.config, DOMAIN text.config \ {"fields"})
      \o (IF keys = {} THEN <<>> ELSE << "fields", ":" >> \o key \o UnitsOf(fields[key]))

\* the contents writeIfChanged is called with: well-formed strings, a string
\* with a lone surrogate, and U+FFFD itself
Contents == { <<"a">>, <<"b">>, << LoneSurrogate >>, << ReplacementChar >> }

\* writeIfChanged(filePath, content) is called
WriteIfChanged ==
  /\ Len(calls) < MaxCalls
  /\ \E content \in Contents : Enter("writeIfChanged", content)
  /\ UNCHANGED <<pc, schema, config, trace, collection, output, disk, provider, store, hook>>

\* the options generateAndWrite is called with
WriteOptions == { <<>>, [diffOnly |-> True] }

\* generateAndWrite(collection, filePath, options):
\* const code = toCode(collection, options); return writeIfChanged(filePath, code)
GenerateAndWrite ==
  /\ pc = "done"
  /\ Len(calls) < MaxCalls
  /\ \E options \in WriteOptions :
       Enter("generateAndWrite", SourceText(toCode(collection, schema, options)))
  /\ UNCHANGED <<pc, schema, config, trace, collection, output, disk, provider, store, hook>>

NextWrite ==
  \/ DefineCollection
  \/ WriteIfChanged
  \/ GenerateAndWrite
  \/ \E i \in 1..Len(calls) : ReadFile(i)
  \/ \E i \in 1..Len(calls) : Compare(i)
  \/ \E i \in 1..Len(calls) : WriteFile(i)
  \/ \E i \in 1..Len(calls) : Mkdir(i)
  \/ \E i \in 1..Len(calls) : CreateFile(i)
  \/ Unlink

\* the files the calls find: none (with or without the directory), and files
\* holding well-formed text, U+FFFD, or a byte that is no UTF-8
Files ==
  { [dir |-> FALSE, exists |-> FALSE, bytes |-> <<>>, mtime |-> 0, last |-> 0],
    [dir |-> TRUE, exists |-> FALSE, bytes |-> <<>>, mtime |-> 0, last |-> 0] }
  \cup { [dir |-> TRUE, exists |-> TRUE, bytes |-> bytes, mtime |-> 0, last |-> 0] :
           bytes \in { <<"a">>, << ReplacementChar >>, << InvalidByte >> } }

\* the collection generateAndWrite is called with: one string field, with
\* or without a description that holds a lone surrogate
WriteOverrides ==
  { Present([description |-> d]) : d \in {Absent, Text(<< LoneSurrogate >>)} }

InitWrite ==
  /\ pc = "start"
  /\ schema = << Field(<<"n", "a", "m", "e">>, Node(<<>>, PlainDef("string"), NoMeta)) >>
  /\ \E override \in WriteOverrides : config = FieldsConfig(schema, << override >>)
  /\ trace = <<>>
  /\ collection = <<>>
  /\ output = <<>>
  /\ disk \in Files
  /\ calls = <<>>
  /\ NoProviderNoStore

SpecWrite == InitWrite /\ [][NextWrite]_vars


\* a file exists only inside its directory
TypeOKWrite == disk.exists => disk.dir


----------------------------------------------------------------------------
(* C17: two sequential calls with identical content *)

Returned(c) == c.pc = "returned"

\* the content has a code unit that is no character: a lone surrogate
IllFormed(content) == \E i \in 1..Len(content) : content[i] = LoneSurrogate

\* two calls were made one after the other with the same content, by the
\* same function, with nothing else touching the file, and both returned
TwoSequentialCalls ==
  /\ Len(calls) = 2
  /\ Returned(calls[1]) /\ Returned(calls[2])
  /\ calls[1].alone /\ calls[2].alone
  /\ calls[1].fn = calls[2].fn
  /\ calls[1].content = calls[2].content
  /\ calls[2].before = calls[1].after

\* the second call returned written = false, reason 'unchanged', and left
\* the file and its modification time as it found them
SecondCallUnchanged ==
  /\ ~calls[2].written
  /\ calls[2].reason = "unchanged"
  /\ calls[2].steps = << Step("readFile", "") >>
  /\ calls[2].after = calls[2].before

\* the file held the content of the first call before it
HeldContent(c) == c.before.exists /\ Decode(c.before.bytes) = c.content

\* C17 (second call): of two sequential writeIfChanged or generateAndWrite
\* calls with identical content on the same path, the second returns
\* written = false with reason 'unchanged' and leaves the file and its
\* modification time untouched.
C17_SecondCallUnchanged == TwoSequentialCalls => SecondCallUnchanged

\* C17 for content without lone surrogates: the second call leaves the file
\* untouched, and the first call is the one write made, unless the file held
\* the content already, when no write is made at all.
C17_WellFormedContent ==
  TwoSequentialCalls /\ ~IllFormed(calls[1].content) =>
    /\ SecondCallUnchanged
    /\ calls[1].written <=> ~HeldContent(calls[1])
    /\ calls[2].after.mtime = calls[1].before.mtime + (IF HeldContent(calls[1]) THEN 0 ELSE 1)

\* C17 reached: two sequential generateAndWrite calls for the same
\* collection and options, and the second one wrote the file again
C17_Reached ==
  /\ TwoSequentialCalls
  /\ calls[1].fn = "generateAndWrite"
  /\ calls[1].written /\ calls[2].written
  /\ calls[2].reason = "updated"
  /\ calls[2].after.mtime = calls[1].before.mtime + 2
  /\ calls[2].after.bytes = calls[2].before.bytes

\* C17 reached on well-formed content: exactly one write, by the first call
C17_ReachedOneWrite ==
  /\ TwoSequentialCalls
  /\ ~IllFormed(calls[1].content)
  /\ calls[1].written
  /\ SecondCallUnchanged


----------------------------------------------------------------------------
(* C18: the reason a call returns, and the file it leaves *)

\* the call ran with no other call and no other process touching the file,
\* and it returned
RanAlone(c) == Returned(c) /\ c.alone

\* the file as text, as readFile(filePath, 'utf-8') gives it
TextOf(snapshot) == Decode(snapshot.bytes)

\* the reason is the one the claim gives for the file the call found
ReasonAsClaimed(c) ==
  /\ c.reason = "created" <=> ~c.before.exists
  /\ c.reason = "updated" <=> c.before.exists /\ TextOf(c.before) # c.content
  /\ c.reason = "unchanged" <=> c.before.exists /\ TextOf(c.before) = c.content
  /\ c.written <=> c.reason # "unchanged"

\* C18 (as stated): a call that runs without concurrent writers returns
\* 'created' exactly when the file did not exist, 'updated' exactly when it
\* existed with different content, 'unchanged' exactly when it existed with
\* identical content; written is true iff the reason is not 'unchanged'; and
\* when the call returns the file's content equals content.
C18_ReasonAndContent ==
  \A i \in 1..Len(calls) :
    RanAlone(calls[i]) =>
      /\ ReasonAsClaimed(calls[i])
      /\ calls[i].after.exists
      /\ TextOf(calls[i].after) = calls[i].content

\* C18 (amended): the reasons are as stated, the content of the file being
\* its text read as UTF-8; when the call returns, that text is content with
\* every lone surrogate replaced by U+FFFD, which is content itself exactly
\* when content has no lone surrogate.
C18_ReasonAndEncodedContent ==
  \A i \in 1..Len(calls) :
    RanAlone(calls[i]) =>
      /\ ReasonAsClaimed(calls[i])
      /\ calls[i].after.exists
      /\ TextOf(calls[i].after) = Decode(Encode(calls[i].content))
      /\ TextOf(calls[i].after) = calls[i].content <=> ~IllFormed(calls[i].content)
      /\ calls[i].written => calls[i].after.bytes = Encode(calls[i].content)
      /\ ~calls[i].written => calls[i].after = calls[i].before

\* C18 witness: a call that ran alone on an existing file returned 'updated'
\* and the file does not read back as the content it was given
C18_Witness ==
  \E i \in 1..Len(calls) :
    /\ RanAlone(calls[i])
    /\ calls[i].before.exists
    /\ calls[i].reason = "updated"
    /\ IllFormed(calls[i].content)
    /\ TextOf(calls[i].after) # calls[i].content


----------------------------------------------------------------------------
(* C19: the errors writeIfChanged handles *)

\* the call ended: it returned or it threw
Ended(c) == c.pc \in {"returned", "thrown"}

\* the steps of the call before step n
Before(c, n) == SubSeq(c.steps, 1, n - 1)

\* the steps of a call are the ones of the code: in the try block a readFile
\* and, when it succeeds, at most one writeFile; after a not-found error of
\* either, a mkdir and then one writeFile, and nothing after them
HandlesNotFound(c) ==
  \A n \in 1..Len(c.steps) :
    /\ c.steps[n].op = "mkdir" <=> (n > 1 /\ c.steps[n - 1].err = "ENOENT"
                                           /\ \A m \in 1..(n - 1) : c.steps[m].op # "mkdir")
    /\ (n > 1 /\ c.steps[n - 1].op = "mkdir") =>
         c.steps[n - 1].err = "" /\ c.steps[n].op = "writeFile" /\ n = Len(c.steps)
    /\ c.steps[n].err = "ENOENT" /\ n < Len(c.steps) =>
         c.steps[n + 1].op = "mkdir"

\* an error other than not-found ends the call at the step that raised it:
\* the call throws that error and makes no step after it
PropagatesOthers(c) ==
  \A n \in 1..Len(c.steps) :
    c.steps[n].err \in OtherErrors =>
      /\ n = Len(c.steps)
      /\ c.pc = "thrown"
      /\ c.err = c.steps[n].err

\* no operation is made twice by a call, but the writeFile of the catch
\* block after the one of the try block failed with a not-found error
NoRetry(c) ==
  \A m, n \in 1..Len(c.steps) :
    m < n /\ c.steps[m].op = c.steps[n].op =>
      /\ c.steps[n].op = "writeFile"
      /\ c.steps[m].err = "ENOENT"
      /\ c.steps[n - 1] = Step("mkdir", "")

\* a call that threw wrote nothing, and threw the error of its last step
ThrownWroteNothing(c) ==
  c.pc = "thrown" =>
    /\ c.steps # <<>>
    /\ c.err = c.steps[Len(c.steps)].err
    /\ c.err # ""
    /\ \A n \in 1..Len(c.steps) : c.steps[n].op = "writeFile" => c.steps[n].err # ""
    /\ ~c.written

\* C19: writeIfChanged handles only a not-found error, by creating the parent
\* directories and then the file; any other file system error raised while
\* reading or writing is propagated to the caller, with no retry and no
\* further write attempted by that call.
C19_OnlyNotFoundHandled ==
  \A i \in 1..Len(calls) :
    /\ HandlesNotFound(calls[i])
    /\ PropagatesOthers(calls[i])
    /\ NoRetry(calls[i])
    /\ ThrownWroteNothing(calls[i])
    /\ Returned(calls[i]) => \A n \in 1..Len(calls[i].steps) :
                               calls[i].steps[n].err \in {"", "ENOENT"}

\* C19 witness: one call threw the error its writeFile raised in the try
\* block, and another handled the not-found error of its readFile
C19_Witness ==
  \E i, j \in 1..Len(calls) :
    /\ calls[i].pc = "thrown"
    /\ calls[i].steps = << Step("readFile", ""), Step("writeFile", "EACCES") >>
    /\ calls[i].err = "EACCES"
    /\ Returned(calls[j])
    /\ calls[j].steps = << Step("readFile", "ENOENT"), Step("mkdir", ""), Step("writeFile", "") >>
    /\ calls[j].reason = "created"

\* the not-found error of the writeFile in the try block is handled as well
C19_WitnessWriteNotFound ==
  \E i \in 1..Len(calls) :
    /\ Returned(calls[i])
    /\ calls[i].steps = << Step("readFile", ""), Step("writeFile", "ENOENT"),
                           Step("mkdir", ""), Step("writeFile", "") >>


----------------------------------------------------------------------------
(* C20: two concurrent calls with different contents *)

\* the file holds what writing the content of call i leaves
Holds(i) == disk.exists /\ disk.bytes = Encode(calls[i].content)

\* C20: writeIfChanged takes no lock.  The file holds the content of the
\* write that landed last, whatever the calls that returned written = true
\* before it were given: a write lands with the content of its call at the
\* time it is made, over the content any other call wrote.
C20_LastWriteWins ==
  /\ disk.last # 0 => Holds(disk.last)
  /\ \A i \in 1..Len(calls) :
       Returned(calls[i]) /\ calls[i].written =>
         /\ calls[i].after.exists
         /\ calls[i].after.bytes = Encode(calls[i].content)
         /\ calls[i].after.mtime > calls[i].before.mtime

\* C20 witness: two calls with different contents found the same file, both
\* wrote it and returned written = true, and the file holds the content of
\* the one whose write landed last, not the content the other was given
C20_Witness ==
  /\ Len(calls) = 2
  /\ Returned(calls[1]) /\ Returned(calls[2])
  /\ Encode(calls[1].content) # Encode(calls[2].content)
  /\ \A i \in 1..2 :
       /\ calls[i].written
       /\ calls[i].reason = "updated"
       /\ calls[i].steps = << Step("readFile", ""), Step("writeFile", "") >>
       /\ calls[i].existing = TextOf(calls[1].before)
  /\ disk.last = 1
  /\ Holds(1)
  /\ ~Holds(2)
  /\ TextOf(Snapshot(disk)) # calls[2].content


----------------------------------------------------------------------------
(* C29: concurrent calls with the same content *)

\* writeIfChanged(filePath, content) is called again with the content of the
\* calls made so far, while they are in flight or after them
WriteSameContent ==
  /\ Len(calls) < MaxSameCalls
  /\ \E content \in Contents :
       /\ \A j \in 1..Len(calls) : calls[j].content = content
       /\ Enter("writeIfChanged", content)
  /\ UNCHANGED <<pc, schema, config, trace, collection, output, disk, provider, store, hook>>

NextWriteSame ==
  \/ WriteSameContent
  \/ \E i \in 1..Len(calls) : ReadFile(i)
  \/ \E i \in 1..Len(calls) : Compare(i)
  \/ \E i \in 1..Len(calls) : WriteFile(i)
  \/ \E i \in 1..Len(calls) : Mkdir(i)
  \/ \E i \in 1..Len(calls) : CreateFile(i)

\* the calls and the file only: no collection is involved
InitWriteSame ==
  /\ pc = "done"
  /\ schema = <<>>
  /\ config = <<>>
  /\ trace = <<>>
  /\ collection = <<>>
  /\ output = <<>>
  /\ disk \in Files
  /\ calls = <<>>
  /\ NoProviderNoStore

SpecWriteSame == InitWriteSame /\ [][NextWriteSame]_vars

\* calls were made, all with the same content, and all of them returned
AllReturned ==
  /\ Len(calls) > 0
  /\ \A i \in 1..Len(calls) : Returned(calls[i])

\* C29 (as stated): when any number of concurrent writeIfChanged calls target
\* the same path with the same content, once all calls have returned the
\* file holds exactly that content.
C29_SameContent ==
  AllReturned => disk.exists /\ TextOf(Snapshot(disk)) = calls[1].content

\* C29 (amended): once all calls have returned, the file read as UTF-8 gives
\* that content with every lone surrogate replaced by U+FFFD, which is the
\* content itself when it has no lone surrogate.
C29_SameEncodedContent ==
  AllReturned =>
    /\ disk.exists
    /\ TextOf(Snapshot(disk)) = Decode(Encode(calls[1].content))
    /\ ~IllFormed(calls[1].content) => TextOf(Snapshot(disk)) = calls[1].content

\* C29 witness: three calls found no file, each of them took the not-found
\* path, all three wrote the file, and it holds the content
C29_Witness ==
  /\ Len(calls) = 3
  /\ AllReturned
  /\ \A i \in 1..3 : calls[i].reason = "created" /\ ~calls[i].alone
  /\ disk.mtime = 3
  /\ TextOf(Snapshot(disk)) = calls[1].content


----------------------------------------------------------------------------
(* C25: the validation layer only narrows the type defaults *)

\* layer 2 narrowed the record l1 into l2
Narrowed(l1, l2) ==
  /\ Get(l2, "searchable") = True => Get(l1, "searchable") = True
  /\ Get(l2, "editable") = True => Get(l1, "editable") = True
  /\ Get(l2, "sortable") = Get(l1, "sortable")
  /\ Get(l2, "groupable") = Get(l1, "groupable")
  /\ Falsy(Get(l1, "filterable")) => Get(l2, "filterable") = Get(l1, "filterable")

\* C25: for every node and every list of checks in any order, after layer 2
\* searchable and editable are never true where the type default had them
\* false, sortable and groupable are unchanged, and filterable is never
\* changed from false to a filter type.
C25_ValidationNarrows ==
  \A i \in 1..Len(trace) : Narrowed(trace[i].l1, trace[i].l2)

\* C25 witness: a string with a uuid check followed by an email check: layer
\* 2 made the field not editable and not searchable and kept the rest
C25_Witness ==
  /\ pc = "done"
  /\ Len(schema) = 1
  /\ schema[1].node.terminal.checks = << "uuid", "email" >>
  /\ trace[1].l1["editable"] = True
  /\ trace[1].l2["editable"] = False
  /\ trace[1].l1["searchable"] = True
  /\ trace[1].l2["searchable"] = False
  /\ trace[1].l2["filterable"] = Str("search")
  /\ trace[1].l2["sortable"] = Str("both")

\* C25 witness on a type whose default filter is off: layer 2 left it off
C25_WitnessFilterOff ==
  /\ pc = "done"
  /\ Len(schema) = 1
  /\ trace[1].l1["filterable"] = False
  /\ trace[1].l2["filterable"] = False


----------------------------------------------------------------------------
(* C26: the order of the fields of a form *)

\* the field has an explicit order
HasOrder(i) == ~Nullish(Get(Resolved(i), "order"))

\* the field is in the returned form
InForm(i) == FormEntriesOf(i) # {}

\* the order value the claim gives field i: its explicit order, or the number
\* of included fields without an explicit order declared before it
ClaimedOrder(i) ==
  IF HasOrder(i) THEN Resolved(i)["order"].n
  ELSE Cardinality({j \in Fields : j < i /\ InForm(j) /\ ~HasOrder(j)})

\* the declaration index of the field entry k of the form is about
DeclaredAt(k) == CHOOSE i \in Fields : output.value[k].name = Text(schema[i].key)

C26_WitnessTie ==
  /\ FormMade
  /\ Len(schema) = 3
  /\ ~HasOrder(1) /\ InForm(1)
  /\ HasOrder(3) /\ Resolved(3)["order"] = Num(0) /\ InForm(3)
  /\ \E k, l \in 1..Len(output.value) :
       /\ k < l
       /\ output.value[k].name = Text(schema[1].key)
       /\ output.value[l].name = Text(schema[3].key)
       /\ output.value[k].order = output.value[l].order


----------------------------------------------------------------------------
(* The in-memory data provider *)

\* String(v) for the values items hold
StringOf(v) ==
  IF v.k = "text" THEN v.q
  ELSE IF v.k = "num" THEN << ToString(v.n) >>
  ELSE << v.k >>

\* getItemId
getItemId(item, idField) == StringOf(Get(item, idField))

\* String.prototype.includes
Includes(hay, needle) ==
  \E start \in 1..(Len(hay) + 1) :
    /\ start + Len(needle) - 1 <= Len(hay)
    /\ \A k \in 1..Len(needle) : hay[start + k - 1] = needle[k]

\* Number(v) is not NaN, and its value
IsNumber(v) == v.k = "num" \/ (v.k = "text" /\ Len(v.q) = 1 /\ IsDigit(v.q[1]))

NumberOf(v) ==
  IF v.k = "num" THEN v.n
  ELSE CHOOSE d \in 0..9 : ToString(d) = v.q[1]

\* matchesFilter
matchesFilter(item, filter) ==
  LET value == Get(item, filter.id)
      fv == filter.value
  IN  IF Nullish(fv) \/ fv = Text(<<>>) THEN TRUE
      ELSE IF fv.k = "arr"
      THEN IF Len(fv.q) = 0 THEN TRUE
           ELSE IF value.k = "arr"
                THEN \E i \in 1..Len(fv.q) : \E j \in 1..Len(value.q) : value.q[j] = fv.q[i]
                ELSE \E i \in 1..Len(fv.q) : fv.q[i] = value
      ELSE IF fv.k = "obj" /\ ("min" \in DOMAIN fv.o \/ "max" \in DOMAIN fv.o)
      THEN /\ ~(Get(fv.o, "min") # Undef /\ IsNumber(value)
                  /\ NumberOf(value) < Get(fv.o, "min").n)
           /\ ~(Get(fv.o, "max") # Undef /\ IsNumber(value)
                  /\ NumberOf(value) > Get(fv.o, "max").n)
      ELSE IF fv.k = "bool" THEN value = fv
      ELSE IF fv.k = "text" THEN Includes(LowerCase(StringOf(value)), LowerCase(fv.q))
      ELSE value = fv

\* matchesSearch; searchFields is Undef for the default
matchesSearch(item, search, searchFields) ==
  IF search = <<>> THEN TRUE
  ELSE LET fields == IF Nullish(searchFields)
                     THEN {k \in DOMAIN item : item[k].k = "text"}
                     ELSE {searchFields.q[i] : i \in 1..Len(searchFields.q)}
       IN  \E field \in fields :
             /\ Get(item, field).k = "text"
             /\ Includes(LowerCase(Get(item, field).q), LowerCase(search))


\* the place of a letter in the alphabet, whatever its case
CharRank(c) == CHOOSE i \in 1..Len(LowerAlpha) : LowerAlpha[i] = ToLower(c)

\* a.localeCompare(b) for words of letters: alphabetical whatever the case,
\* and for words that differ by case only, lower case first
RECURSIVE LetterCompare(_, _, _)
LetterCompare(a, b, cased) ==
  IF a = <<>> /\ b = <<>> THEN 0
  ELSE IF a = <<>> THEN -1
  ELSE IF b = <<>> THEN 1
  ELSE LET x == IF cased THEN (IF IsUpper(Head(a)) THEN 1 ELSE 0) ELSE CharRank(Head(a))
           y == IF cased THEN (IF IsUpper(Head(b)) THEN 1 ELSE 0) ELSE CharRank(Head(b))
       IN  IF x < y THEN -1
           ELSE IF x > y THEN 1
           ELSE LetterCompare(Tail(a), Tail(b), cased)

localeCompare(a, b) ==
  IF LetterCompare(a, b, FALSE) # 0 THEN LetterCompare(a, b, FALSE)
  ELSE LetterCompare(a, b, TRUE)

\* compareValues
compareValues(a, b) ==
  IF a = b THEN 0
  ELSE IF Nullish(a) THEN -1
  ELSE IF Nullish(b) THEN 1
  ELSE IF a.k = "text" /\ b.k = "text" THEN localeCompare(a.q, b.q)
  ELSE IF IsNumber(a) /\ IsNumber(b) /\ NumberOf(a) < NumberOf(b) THEN -1
  ELSE 1

\* the comparator of getList: the first sort column that tells a from b
RECURSIVE SortCompare(_, _, _)
SortCompare(a, b, sort) ==
  IF sort = <<>> THEN 0
  ELSE LET cmp == compareValues(Get(a, Head(sort).id), Get(b, Head(sort).id))
       IN  IF cmp # 0 THEN (IF Head(sort).desc THEN -cmp ELSE cmp)
           ELSE SortCompare(a, b, Tail(sort))

\* result.sort(comparator) on the positions `result` of `items`: ascending by
\* the comparator, the positions it does not tell apart in their order
SortBy(items, result, sort) ==
  LET n == Len(result)
      Rank(i) == 1 + Cardinality({j \in 1..n :
                       LET c == SortCompare(items[result[j]], items[result[i]], sort)
                       IN  c < 0 \/ (c = 0 /\ j < i)})
  IN  [k \in 1..n |-> result[CHOOSE i \in 1..n : Rank(i) = k]]

\* result = result.filter(item => matchesFilter(item, filter)), for each filter
RECURSIVE ApplyFilters(_, _, _)
ApplyFilters(items, result, filters) ==
  IF filters = <<>> THEN result
  ELSE ApplyFilters(items,
                    SelectSeq(result, LAMBDA i : matchesFilter(items[i], Head(filters))),
                    Tail(filters))

\* Array.prototype.slice(start, end)
Slice(arr, start, end) ==
  LET n == Len(arr)
      from == IF start < 0 THEN (IF n + start < 0 THEN 0 ELSE n + start)
              ELSE (IF start > n THEN n ELSE start)
      to == IF end < 0 THEN (IF n + end < 0 THEN 0 ELSE n + end)
            ELSE (IF end > n THEN n ELSE end)
  IN  SubSeq(arr, from + 1, to)

\* a page cut that counts pages from zero
PaginateZeroBased(sorted, pagination) ==
  IF pagination.has
  THEN Slice(sorted, pagination.page * pagination.pageSize,
             pagination.page * pagination.pageSize + pagination.pageSize)
  ELSE sorted

\* the page of getList
Paginate(sorted, pagination) ==
  IF pagination.has
  THEN Slice(sorted, (pagination.page - 1) * pagination.pageSize,
             (pagination.page - 1) * pagination.pageSize + pagination.pageSize)
  ELSE sorted

\* the sorted positions the page is cut from
SortIfAsked(items, result, sort) ==
  IF Len(sort) > 0 THEN SortBy(items, result, sort) ELSE result

\* getList: the positions in items of the items returned, the items, the total
GetListResult(items, found, picked) ==
  [total |-> Len(found), picked |-> picked,
   data |-> [k \in 1..Len(picked) |-> items[picked[k]]]]

getList(items, params, searchFields) ==
  LET filtered == ApplyFilters(items, [i \in 1..Len(items) |-> i], params.filter)
      found == SelectSeq(filtered,
                         LAMBDA i : matchesSearch(items[i], params.search, searchFields))
  IN  GetListResult(items, found,
                    Paginate(SortIfAsked(items, found, params.sort), params.pagination))


\* a findIndex that falls back on the last item when none matches
FindIndexOrLast(items, idField, id) ==
  IF \E i \in 1..Len(items) : getItemId(items[i], idField) = id
  THEN CHOOSE i \in 1..Len(items) : getItemId(items[i], idField) = id
  ELSE Len(items)

\* items.findIndex(i => getItemId(i) === id): 0 for -1
FindIndex(items, idField, id) ==
  IF \E i \in 1..Len(items) : getItemId(items[i], idField) = id
  THEN CHOOSE i \in 1..Len(items) :
         /\ getItemId(items[i], idField) = id
         /\ \A j \in 1..(i - 1) : getItemId(items[j], idField) # id
  ELSE 0

\* what a call leaves: the items, nextId, whether it threw 'Item not found',
\* and what it returned
Outcome(items, nextId, threw, result) ==
  [items |-> items, nextId |-> nextId, threw |-> threw, result |-> result]

\* getOne
getOne(p, id) ==
  LET index == FindIndex(p.items, p.idField, id)
  IN  IF index = 0 THEN Outcome(p.items, p.nextId, TRUE, <<>>)
      ELSE Outcome(p.items, p.nextId, FALSE, p.items[index])

\* the item create stores: { ...data, [idField]: data[idField] ?? String(nextId++) }
NewItem(data, idField, nextId) ==
  Put(data, idField, Coalesce(Get(data, idField), Text(<< ToString(nextId) >>)))

\* create
create(p, data) ==
  Outcome(Append(p.items, NewItem(data, p.idField, p.nextId)),
          IF Nullish(Get(data, p.idField)) THEN p.nextId + 1 ELSE p.nextId,
          FALSE, NewItem(data, p.idField, p.nextId))

\* update
update(p, id, data) ==
  LET index == FindIndex(p.items, p.idField, id)
  IN  IF index = 0 THEN Outcome(p.items, p.nextId, TRUE, <<>>)
      ELSE Outcome([p.items EXCEPT ![index] = Merge(@, data)], p.nextId, FALSE,
                   Merge(p.items[index], data))

\* the loop of updateMany over ids: the items and the copies pushed to updated
RECURSIVE UpdateEach(_, _, _, _, _)
UpdateEach(items, idField, ids, data, updated) ==
  IF ids = <<>> THEN [items |-> items, updated |-> updated]
  ELSE LET index == FindIndex(items, idField, Head(ids))
       IN  IF index = 0 THEN UpdateEach(items, idField, Tail(ids), data, updated)
           ELSE UpdateEach([items EXCEPT ![index] = Merge(@, data)], idField, Tail(ids),
                           data, Append(updated, Merge(items[index], data)))

\* updateMany
updateMany(p, ids, data) ==
  Outcome(UpdateEach(p.items, p.idField, ids, data, <<>>).items, p.nextId, FALSE,
          UpdateEach(p.items, p.idField, ids, data, <<>>).updated)

\* items.splice(index, 1)
Splice(items, index) ==
  [k \in 1..(Len(items) - 1) |-> IF k < index THEN items[k] ELSE items[k + 1]]

\* delete
delete(p, id) ==
  LET index == FindIndex(p.items, p.idField, id)
  IN  IF index = 0 THEN Outcome(p.items, p.nextId, TRUE, <<>>)
      ELSE Outcome(Splice(p.items, index), p.nextId, FALSE, <<>>)

\* deleteMany
deleteMany(p, ids) ==
  Outcome(SelectSeq(p.items,
                    LAMBDA item : \A k \in 1..Len(ids) : getItemId(item, p.idField) # ids[k]),
          p.nextId, FALSE, <<>>)

\* createInMemoryProvider(initialData, options)
createInMemoryProvider(initialData, idField, searchFields) ==
  [idField |-> idField, searchFields |-> searchFields,
   items |-> initialData, nextId |-> Len(initialData) + 1,
   last |-> [op |-> "none"]]


----------------------------------------------------------------------------
(* The provider as a state machine: the calls of a client, one at a time; the
   body of each operation runs without interruption once its delay is over *)

\* the provider after a call, remembering the call
AfterCall(op, args, outcome) ==
  [provider EXCEPT !.items = outcome.items,
                   !.nextId = outcome.nextId,
                   !.last = [op |-> op, args |-> args, threw |-> outcome.threw,
                             result |-> outcome.result, before |-> provider.items]]

OnlyProvider == UNCHANGED <<pc, schema, config, trace, collection, output, disk, calls,
                            store, hook>>

\* ids a client asks for: stored ones and unknown ones
ProviderIds == { << ToString(n) >> : n \in 1..MaxItems } \cup { << "9" >> }

ProviderIdLists ==
  { << << "1" >>, << "2" >> >>, << << "2" >>, << "9" >> >> }

\* data of create, update and updateMany: with and without the id field
ProviderData ==
  { ("name" :> Text(<< "b" >>)),
    ("id" :> Text(<< "1" >>)) }

ProviderItem(id, name, rank) ==
  ("id" :> Text(<< id >>)) @@ ("name" :> Text(name)) @@ ("rank" :> Num(rank))

InitialData ==
  { <<>>,
    << ("id" :> Text(<< "2" >>)) @@ ("name" :> Text(<< "a" >>)) >>,
    << ProviderItem("1", << "a", "b" >>, 2), ProviderItem("2", << "B", "a" >>, 1) >>,
    << ProviderItem("1", << "b" >>, 1), ProviderItem("2", << "a" >>, 1),
       ProviderItem("3", << "a", "b" >>, 2) >> }

ProviderFilters ==
  { <<>>,
    << [id |-> "rank", value |-> Num(1)] >>,
    << [id |-> "name", value |-> Text(<< "b" >>)], [id |-> "rank", value |-> Num(2)] >> }

ProviderSearches == { <<>>, << "A" >> }

ProviderSorts ==
  { <<>>,
    << [id |-> "name", desc |-> FALSE] >>,
    << [id |-> "rank", desc |-> FALSE], [id |-> "name", desc |-> TRUE] >> }

PageSizes == 1..2

ProviderPaginations ==
  { [has |-> FALSE, page |-> 1, pageSize |-> 1] }
  \cup { [has |-> TRUE, page |-> 2, pageSize |-> 1] }

ListParams ==
  [filter : ProviderFilters, search : ProviderSearches, sort : ProviderSorts,
   pagination : ProviderPaginations]

GetList ==
  /\ \E params \in ListParams :
       provider' = AfterCall("getList", params,
                             Outcome(provider.items, provider.nextId, FALSE,
                                     getList(provider.items, params, provider.searchFields)))
  /\ OnlyProvider

GetOne ==
  /\ \E id \in ProviderIds : provider' = AfterCall("getOne", id, getOne(provider, id))
  /\ OnlyProvider

Create ==
  /\ Len(provider.items) < MaxItems
  /\ provider.nextId <= MaxItems + 1
  /\ \E data \in ProviderData : provider' = AfterCall("create", data, create(provider, data))
  /\ OnlyProvider

Update ==
  /\ \E id \in ProviderIds, data \in ProviderData :
       provider' = AfterCall("update", [id |-> id, data |-> data], update(provider, id, data))
  /\ OnlyProvider

UpdateMany ==
  /\ \E ids \in ProviderIdLists, data \in ProviderData :
       provider' = AfterCall("updateMany", [ids |-> ids, data |-> data],
                             updateMany(provider, ids, data))
  /\ OnlyProvider

Delete ==
  /\ \E id \in ProviderIds : provider' = AfterCall("delete", id, delete(provider, id))
  /\ OnlyProvider

DeleteMany ==
  /\ \E ids \in ProviderIdLists :
       provider' = AfterCall("deleteMany", ids, deleteMany(provider, ids))
  /\ OnlyProvider

NextProvider ==
  \/ GetList
  \/ GetOne
  \/ Create
  \/ Update
  \/ UpdateMany
  \/ Delete
  \/ DeleteMany

InitProvider ==
  /\ pc = "done"
  /\ schema = <<>>
  /\ config = <<>>
  /\ trace = <<>>
  /\ collection = <<>>
  /\ output = <<>>
  /\ disk = <<>>
  /\ calls = <<>>
  /\ store = <<>>
  /\ hook = <<>>
  /\ \E initialData \in InitialData, searchFields \in {Undef, Text(<< "name" >>)} :
       /\ (searchFields # Undef => Len(initialData) > 2)
       /\ provider = createInMemoryProvider(initialData, "id", searchFields)

SpecProvider == InitProvider /\ [][NextProvider]_vars


----------------------------------------------------------------------------
(* Unknown ids *)

\* the id the last getOne, update or delete was called with
LastId == IF provider.last.op = "update" THEN provider.last.args.id ELSE provider.last.args

\* no item stored before the last call had that id
UnknownId ==
  \A i \in 1..Len(provider.last.before) :
    getItemId(provider.last.before[i], provider.idField) # LastId

\* C21: getOne, update and delete called with an id that no stored item has
\* reject with 'Item not found' and leave the items as they were.
C21_UnknownIdRejected ==
  (provider.last.op \in {"getOne", "update", "delete"} /\ UnknownId)
    => (provider.last.threw /\ provider.items = provider.last.before)

\* an update of a provider that holds items, with an id none of them has
C21_Witness ==
  /\ provider.last.op = "update"
  /\ UnknownId
  /\ provider.last.threw
  /\ Len(provider.items) > 1

\* a delete with an unknown id, after which every item is still there
C21_WitnessDelete ==
  /\ provider.last.op = "delete"
  /\ UnknownId
  /\ provider.last.threw
  /\ Len(provider.items) = MaxItems


----------------------------------------------------------------------------
(* Lists and pages *)

\* the positions of the items that match every filter and the search
Matching(items, params, searchFields) ==
  { i \in 1..Len(items) :
      /\ \A f \in 1..Len(params.filter) : matchesFilter(items[i], params.filter[f])
      /\ matchesSearch(items[i], params.search, searchFields) }

\* `list` holds each position of `set` once, in the order of the sort columns,
\* positions the columns do not tell apart in the order of the items
SortedListOf(list, set, items, sort) ==
  /\ Len(list) = Cardinality(set)
  /\ { list[k] : k \in 1..Len(list) } = set
  /\ \A k \in 1..(Len(list) - 1) :
       \/ SortCompare(items[list[k]], items[list[k + 1]], sort) < 0
       \/ /\ SortCompare(items[list[k]], items[list[k + 1]], sort) = 0
          /\ list[k] < list[k + 1]

\* the call asked for page `page` of `pageSize` items
PageOf(params, page, pageSize) ==
  [params EXCEPT !.pagination = [has |-> TRUE, page |-> page, pageSize |-> pageSize]]

Unpaged(params) == [params EXCEPT !.pagination = [has |-> FALSE, page |-> 1, pageSize |-> 1]]

\* ceil(total / pageSize)
PageCount(total, pageSize) == (total + pageSize - 1) \div pageSize

\* the last call was getList(params) on `items`, and `full` is what the same
\* call without pagination picks
ListClaims(items, params, searchFields, result, full) ==
  /\ result.total = Cardinality(Matching(items, params, searchFields))
  /\ SortedListOf(full, Matching(items, params, searchFields), items, params.sort)
  /\ params.pagination.has =>
       result.picked =
         SubSeq(full, (params.pagination.page - 1) * params.pagination.pageSize + 1,
                IF params.pagination.page * params.pagination.pageSize < Len(full)
                THEN params.pagination.page * params.pagination.pageSize ELSE Len(full))
  /\ ~params.pagination.has => result.picked = full
  /\ result.data = [k \in 1..Len(result.picked) |-> items[result.picked[k]]]
  /\ \A pageSize \in PageSizes : \A i \in Matching(items, params, searchFields) :
       Cardinality({ pk \in (1..PageCount(result.total, pageSize)) \X (1..pageSize) :
                       /\ pk[2] <= Len(getList(items, PageOf(params, pk[1], pageSize),
                                               searchFields).picked)
                       /\ getList(items, PageOf(params, pk[1], pageSize),
                                  searchFields).picked[pk[2]] = i }) = 1

\* C22: getList reports as total the number of items that match every filter
\* and the search, whatever the sort and the pagination; its data is the slice
\* [(page-1)*pageSize, page*pageSize) of the filtered, sorted list; the pages
\* 1..ceil(total/pageSize) hold every matching item exactly once; and the
\* stored items and their order are as before the call.
C22_ListAndPages ==
  provider.last.op = "getList" =>
    /\ provider.items = provider.last.before
    /\ ~provider.last.threw
    /\ ListClaims(provider.items, provider.last.args, provider.searchFields,
                  provider.last.result,
                  getList(provider.items, Unpaged(provider.last.args),
                          provider.searchFields).picked)

\* the second page of one item, of two items that pass a filter, sorted so
\* that the stored order is reversed
C22_Witness ==
  /\ provider.last.op = "getList"
  /\ provider.last.args.filter # <<>>
  /\ provider.last.args.sort # <<>>
  /\ provider.last.args.pagination.has
  /\ provider.last.args.pagination.page = 2
  /\ provider.last.result.total = 2
  /\ provider.last.result.picked = << 1 >>

\* a search that leaves out an item, after the items were changed
C22_WitnessSearch ==
  /\ provider.last.op = "getList"
  /\ provider.last.args.search # <<>>
  /\ provider.last.result.total > 0
  /\ provider.last.result.total < Len(provider.items)
  /\ provider.nextId > Len(provider.items) + 1


----------------------------------------------------------------------------
(* Ids *)

\* C27: after any sequence of create, update, updateMany, delete and
\* deleteMany, the ids of the stored items are pairwise distinct.
C27_DistinctIds ==
  \A i \in 1..Len(provider.items) : \A j \in 1..Len(provider.items) :
    i # j => getItemId(provider.items[i], provider.idField)
               # getItemId(provider.items[j], provider.idField)

\* create, given data without an id, stored an item under an id that an
\* item of the initial data already had
C27_AutoIdTaken ==
  /\ provider.last.op = "create"
  /\ Nullish(Get(provider.last.args, provider.idField))
  /\ \E i \in 1..Len(provider.last.before) :
       getItemId(provider.last.before[i], provider.idField)
         = getItemId(provider.last.result, provider.idField)


----------------------------------------------------------------------------
(* The collection store: initial state, pure actions, selectors *)

\* the page size of a collection that configures none
DefaultPageSize == 25

\* the order of a field that declares none
NoOrder == 999

\* an action that wrote its result into the state it was given
WrittenInPlace(state, result) == result

\* the state an action was given, as the action leaves it: the actions build
\* their result with an object spread and assign nothing to `state`
Untouched(state, result) == state

\* buildInitialVisibility
buildInitialVisibility(fieldAffordances) ==
  [key \in { fieldAffordances[i].key : i \in { j \in 1..Len(fieldAffordances) :
                 \/ Get(fieldAffordances[j].fa, "visible") = False
                 \/ ~Falsy(Get(fieldAffordances[j].fa, "hidden")) } } |-> FALSE]

\* buildInitialOrder
buildInitialOrder(fieldAffordances) ==
  LET sorted == StableSort(fieldAffordances,
                           [i \in 1..Len(fieldAffordances) |->
                              Coalesce(Get(fieldAffordances[i].fa, "order"), Num(NoOrder)).n])
  IN  [i \in 1..Len(sorted) |-> sorted[i].key]

\* the page size createCollectionStore starts from
defaultPageSize(paginationConfig) ==
  IF ~Falsy(paginationConfig) /\ paginationConfig.k = "obj"
  THEN Coalesce(Get(paginationConfig.o, "defaultPageSize"), Num(DefaultPageSize)).n
  ELSE DefaultPageSize

\* createCollectionStore: initialState
initialState(coll) ==
  [items |-> <<>>,
   totalCount |-> 0,
   loading |-> FALSE,
   error |-> Null,
   sorting |-> IF ~Falsy(Get(coll.affordances, "defaultSort"))
               THEN << [id |-> coll.affordances.defaultSort.o.field.q,
                        desc |-> coll.affordances.defaultSort.o.direction = Str("desc")] >>
               ELSE <<>>,
   columnFilters |-> <<>>,
   globalFilter |-> <<>>,
   pagination |-> [pageIndex |-> 0,
                   pageSize |-> defaultPageSize(Get(coll.affordances, "pagination"))],
   rowSelection |-> <<>>,
   columnVisibility |-> buildInitialVisibility(coll.fieldAffordances),
   columnOrder |-> buildInitialOrder(coll.fieldAffordances),
   grouping |-> <<>>]

setItems(state, items, total) ==
  [state EXCEPT !.items = items,
                !.totalCount = IF Nullish(total) THEN Len(items) ELSE total.n]

setSorting(state, sorting) == [state EXCEPT !.sorting = sorting]

setColumnFilters(state, filters) ==
  [state EXCEPT !.columnFilters = filters,
                !.pagination = [state.pagination EXCEPT !.pageIndex = 0]]

setGlobalFilter(state, filter) ==
  [state EXCEPT !.globalFilter = filter,
                !.pagination = [state.pagination EXCEPT !.pageIndex = 0]]

setPagination(state, pagination) == [state EXCEPT !.pagination = pagination]

setRowSelection(state, selection) == [state EXCEPT !.rowSelection = selection]

setColumnVisibility(state, visibility) == [state EXCEPT !.columnVisibility = visibility]

setColumnOrder(state, order) == [state EXCEPT !.columnOrder = order]

setGrouping(state, grouping) == [state EXCEPT !.grouping = grouping]

setLoading(state, loading) == [state EXCEPT !.loading = loading]

setError(state, error) == [state EXCEPT !.error = error]

clearSelection(state) == [state EXCEPT !.rowSelection = <<>>]

\* selectAll: the keys String(0) .. String(items.length - 1), all true
selectAll(state) ==
  [state EXCEPT !.rowSelection = [i \in 0..(Len(state.items) - 1) |-> TRUE]]

\* a reset that goes back to the initial page size as well
resetPageSize(state, initial) ==
  [state EXCEPT !.sorting = initial.sorting,
                !.columnFilters = <<>>,
                !.globalFilter = <<>>,
                !.pagination = initial.pagination,
                !.rowSelection = <<>>,
                !.grouping = <<>>]

\* reset
reset(state, initial) ==
  [state EXCEPT !.sorting = initial.sorting,
                !.columnFilters = <<>>,
                !.globalFilter = <<>>,
                !.pagination = [pageIndex |-> 0, pageSize |-> state.pagination.pageSize],
                !.rowSelection = <<>>,
                !.grouping = <<>>]

\* the keys of rowSelection whose value is true, as Object.entries lists
\* them: ascending; key n stands for the string String(n)
SelectedKeys(state) ==
  SelectSeq([i \in 1..(MaxRows + 1) |-> i - 1],
            LAMBDA key : key \in DOMAIN state.rowSelection /\ state.rowSelection[key])

\* getSelectedItems: state.items[parseInt(idx)] of each selected key, without
\* the undefined ones
getSelectedItems(state) ==
  LET inside == SelectSeq(SelectedKeys(state), LAMBDA key : key < Len(state.items))
  IN  [i \in 1..Len(inside) |-> state.items[inside[i] + 1]]

\* getSelectedCount
getSelectedCount(state) == Len(SelectedKeys(state))

\* isAllSelected
isAllSelected(state) ==
  IF Len(state.items) = 0 THEN FALSE
  ELSE Len(SelectedKeys(state)) = Len(state.items)


----------------------------------------------------------------------------
(* The store as a state machine: a client applies the actions, each to the
   state the one before returned *)

\* the store after an action: the state returned, the state that was passed
\* in as the action leaves it, and the call
AfterAction(op, args, result) ==
  [store EXCEPT !.state = result,
                !.input = Untouched(store.state, result),
                !.last = [op |-> op, args |-> args, before |-> store.state],
                !.applied = @ + 1]

OnlyStore == UNCHANGED <<pc, schema, config, trace, collection, output, disk, calls,
                         provider, hook>>

CanApply == store.applied < MaxActions

\* collections as createCollectionStore reads them: the affordances and the
\* field affordances
StoreCollections ==
  { [affordances |-> [pagination |-> True],
     fieldAffordances |-> << [key |-> "name", fa |-> <<>>] >>],
    [affordances |-> [pagination |-> Obj([defaultPageSize |-> Num(10)]),
                      defaultSort |-> Obj([field |-> Text(<< "n" >>),
                                           direction |-> Str("desc")])],
     fieldAffordances |-> << [key |-> "name", fa |-> [order |-> Num(2)]],
                             [key |-> "tags", fa |-> [visible |-> False,
                                                      order |-> Num(1)]] >>] }

RowNames == << "a", "b", "c", "d" >>

StoreItems == { [i \in 1..n |-> RowNames[i]] : n \in 0..MaxRows }

StoreTotals == { Undef, Num(5) }

StoreSelections ==
  { (0 :> TRUE), (1 :> TRUE), (0 :> TRUE) @@ (1 :> FALSE) }

StorePaginations == { [pageIndex |-> 3, pageSize |-> 50], [pageIndex |-> 1, pageSize |-> 25] }

StoreFilters == { <<>>, << [id |-> "status", value |-> Text(<< "a" >>)] >> }

StoreSearches == { <<>>, << "t" >> }

SetItems ==
  /\ CanApply
  /\ \E items \in StoreItems, total \in StoreTotals :
       store' = AfterAction("setItems", [items |-> items, total |-> total],
                            setItems(store.state, items, total))
  /\ OnlyStore

SetSorting ==
  /\ CanApply
  /\ \E sorting \in { << [id |-> << "n" >>, desc |-> FALSE] >> } :
       store' = AfterAction("setSorting", sorting, setSorting(store.state, sorting))
  /\ OnlyStore

SetColumnFilters ==
  /\ CanApply
  /\ \E filters \in StoreFilters :
       store' = AfterAction("setColumnFilters", filters,
                            setColumnFilters(store.state, filters))
  /\ OnlyStore

SetGlobalFilter ==
  /\ CanApply
  /\ \E filter \in StoreSearches :
       store' = AfterAction("setGlobalFilter", filter, setGlobalFilter(store.state, filter))
  /\ OnlyStore

SetPagination ==
  /\ CanApply
  /\ \E pagination \in StorePaginations :
       store' = AfterAction("setPagination", pagination,
                            setPagination(store.state, pagination))
  /\ OnlyStore

SetRowSelection ==
  /\ CanApply
  /\ \E selection \in StoreSelections :
       store' = AfterAction("setRowSelection", selection,
                            setRowSelection(store.state, selection))
  /\ OnlyStore

SetColumnVisibility ==
  /\ CanApply
  /\ \E visibility \in { ("name" :> FALSE) } :
       store' = AfterAction("setColumnVisibility", visibility,
                            setColumnVisibility(store.state, visibility))
  /\ OnlyStore

SetColumnOrder ==
  /\ CanApply
  /\ \E order \in { << "tags", "name" >> } :
       store' = AfterAction("setColumnOrder", order, setColumnOrder(store.state, order))
  /\ OnlyStore

SetGrouping ==
  /\ CanApply
  /\ \E grouping \in { << "status" >> } :
       store' = AfterAction("setGrouping", grouping, setGrouping(store.state, grouping))
  /\ OnlyStore

SetLoading ==
  /\ CanApply
  /\ \E loading \in BOOLEAN :
       store' = AfterAction("setLoading", loading, setLoading(store.state, loading))
  /\ OnlyStore

SetError ==
  /\ CanApply
  /\ \E error \in { Null, Text(<< "e" >>) } :
       store' = AfterAction("setError", error, setError(store.state, error))
  /\ OnlyStore

ClearSelection ==
  /\ CanApply
  /\ store' = AfterAction("clearSelection", <<>>, clearSelection(store.state))
  /\ OnlyStore

SelectAll ==
  /\ CanApply
  /\ store' = AfterAction("selectAll", <<>>, selectAll(store.state))
  /\ OnlyStore

Reset ==
  /\ CanApply
  /\ store' = AfterAction("reset", <<>>, reset(store.state, store.initialState))
  /\ OnlyStore

NextStore ==
  \/ SetItems
  \/ SetSorting
  \/ SetColumnFilters
  \/ SetGlobalFilter
  \/ SetPagination
  \/ SetRowSelection
  \/ SetColumnVisibility
  \/ SetColumnOrder
  \/ SetGrouping
  \/ SetLoading
  \/ SetError
  \/ ClearSelection
  \/ SelectAll
  \/ Reset

\* createCollectionStore(collection)
createCollectionStore(coll) ==
  [collection |-> coll,
   initialState |-> initialState(coll),
   state |-> initialState(coll),
   input |-> initialState(coll),
   last |-> [op |-> "none", args |-> <<>>, before |-> initialState(coll)],
   applied |-> 0]

InitStore ==
  /\ pc = "done"
  /\ schema = <<>>
  /\ config = <<>>
  /\ trace = <<>>
  /\ collection = <<>>
  /\ output = <<>>
  /\ disk = <<>>
  /\ calls = <<>>
  /\ provider = <<>>
  /\ hook = <<>>
  /\ \E coll \in StoreCollections : store = createCollectionStore(coll)

SpecStore == InitStore /\ [][NextStore]_vars

----------------------------------------------------------------------------
(* Filters go back to the first page *)

\* the fields of a store state
StateFields == DOMAIN store.state

\* C23: setColumnFilters and setGlobalFilter set pagination.pageIndex to 0,
\* keep pagination.pageSize, store the filter they were given, leave every
\* other field of the state as it was, and do not modify the state object
\* they were given.
C23_FilterFrame ==
  \A op \in {"setColumnFilters", "setGlobalFilter"} :
    store.last.op = op =>
      LET field == IF op = "setColumnFilters" THEN "columnFilters" ELSE "globalFilter"
      IN  /\ store.state.pagination.pageIndex = 0
          /\ store.state.pagination.pageSize = store.last.before.pagination.pageSize
          /\ store.state[field] = store.last.args
          /\ \A f \in StateFields \ {field, "pagination"} :
               store.state[f] = store.last.before[f]
          /\ store.input = store.last.before

\* a column filter set on page 3 of 50: the state returned is on page 0 of
\* 50, the state passed in still on page 3
C23_Witness ==
  /\ store.last.op = "setColumnFilters"
  /\ store.last.args # <<>>
  /\ store.last.before.pagination = [pageIndex |-> 3, pageSize |-> 50]
  /\ store.state.pagination = [pageIndex |-> 0, pageSize |-> 50]
  /\ store.input.pagination.pageIndex = 3

\* a global filter set on a later page, over items that stay
C23_WitnessGlobal ==
  /\ store.last.op = "setGlobalFilter"
  /\ store.last.args # <<>>
  /\ store.last.before.pagination.pageIndex = 1
  /\ Len(store.state.items) > 0


----------------------------------------------------------------------------
(* Reset *)

\* the sorting a collection asks for: its defaultSort, else none
InitialSorting(coll) ==
  IF "defaultSort" \in DOMAIN coll.affordances
  THEN << [id |-> coll.affordances.defaultSort.o.field.q,
           desc |-> coll.affordances.defaultSort.o.direction.s = "desc"] >>
  ELSE <<>>

\* the fields reset gives back as it found them
KeptByReset == {"items", "totalCount", "loading", "error", "columnVisibility", "columnOrder"}

\* C24: after any sequence of actions, reset yields the initial sorting of
\* the store (from the collection's defaultSort, else empty), empty
\* columnFilters, globalFilter, rowSelection and grouping, and pageIndex 0; it
\* keeps pageSize, items, totalCount, loading, error, columnVisibility and
\* columnOrder; and resetting a state twice gives what resetting it once gives.
C24_Reset ==
  /\ store.last.op = "reset" =>
       /\ store.state.sorting = store.initialState.sorting
       /\ store.state.sorting = InitialSorting(store.collection)
       /\ store.state.columnFilters = <<>>
       /\ store.state.globalFilter = <<>>
       /\ store.state.rowSelection = <<>>
       /\ store.state.grouping = <<>>
       /\ store.state.pagination.pageIndex = 0
       /\ store.state.pagination.pageSize = store.last.before.pagination.pageSize
       /\ \A f \in KeptByReset : store.state[f] = store.last.before[f]
       /\ reset(store.state, store.initialState) = store.state
  /\ reset(reset(store.state, store.initialState), store.initialState)
       = reset(store.state, store.initialState)

\* a reset of a state with another sorting than the initial one, on page 3
\* of 50
C24_Witness ==
  /\ store.last.op = "reset"
  /\ store.last.before.sorting # store.initialState.sorting
  /\ store.initialState.sorting # <<>>
  /\ store.last.before.pagination = [pageIndex |-> 3, pageSize |-> 50]
  /\ store.state.pagination = [pageIndex |-> 0, pageSize |-> 50]

\* a reset of a state with items, a total and a selection
C24_WitnessItems ==
  /\ store.last.op = "reset"
  /\ Len(store.state.items) = MaxRows
  /\ store.state.totalCount > MaxRows
  /\ store.last.before.rowSelection # <<>>


----------------------------------------------------------------------------
(* Selection *)

\* every index of state.items is a key of rowSelection with the value true
EveryIndexSelected(state) ==
  \A i \in 0..(Len(state.items) - 1) :
    i \in DOMAIN state.rowSelection /\ state.rowSelection[i]

\* C28: in every state reached through the actions, getSelectedCount is the
\* length of getSelectedItems, and isAllSelected is true only when every index
\* of state.items is selected.
C28_SelectionAgrees ==
  /\ getSelectedCount(store.state) = Len(getSelectedItems(store.state))
  /\ isAllSelected(store.state) => EveryIndexSelected(store.state)

\* setItems replaced the items under a selection, and isAllSelected holds
\* although the first row is not selected
C28_StaleAllSelected ==
  /\ store.last.op = "setItems"
  /\ store.last.before.rowSelection # <<>>
  /\ isAllSelected(store.state)
  /\ ~EveryIndexSelected(store.state)

\* setItems replaced the items under a selection, and more rows are counted
\* than getSelectedItems returns
C28_StaleCount ==
  /\ store.last.op = "setItems"
  /\ store.last.before.rowSelection # <<>>
  /\ getSelectedCount(store.state) > Len(getSelectedItems(store.state))


----------------------------------------------------------------------------
(* The useCollection hook: the state of the component, the ref that holds
   the key of the parameters last fetched, and the getList calls in flight;
   the provider answers each call in its own time *)

\* JSON.stringify({ sorting, columnFilters, globalFilter, pagination }): one
\* key per value of the four parameters, for parameters made of strings,
\* numbers and booleans
ParamsKey(state) ==
  << state.sorting, state.columnFilters, state.globalFilter, state.pagination >>

\* the parameters fetchData passes to provider.getList
ListParamsOf(currentState) ==
  [sort |-> currentState.sorting,
   filter |-> currentState.columnFilters,
   search |-> currentState.globalFilter,
   pagination |-> [has |-> TRUE, page |-> currentState.pagination.pageIndex + 1,
                   pageSize |-> currentState.pagination.pageSize]]

\* fetchData up to its await: loading is set and getList is called
fetchData(h, currentState) ==
  [h EXCEPT !.state = setLoading(h.state, TRUE),
            !.fetches = Append(@, [params |-> ListParamsOf(currentState),
                                   status |-> "pending"])]

\* fetchData when getList resolved with this result
FetchResolved(prev, result) ==
  setError(setLoading(setItems(prev, result.data, Num(result.total)), FALSE), Null)

\* fetchData when getList rejected with this message
FetchRejected(prev, message) == setError(setLoading(prev, FALSE), message)

OnlyHook == UNCHANGED <<pc, schema, config, trace, collection, output, disk, calls,
                        provider, store>>

HookSetSorting ==
  /\ \E sorting \in { << [id |-> "name", desc |-> FALSE] >> } :
       hook' = [hook EXCEPT !.state = setSorting(@, sorting)]
  /\ OnlyHook

HookSetColumnFilters ==
  /\ \E filters \in { <<>>, << [id |-> "rank", value |-> Num(1)] >> } :
       hook' = [hook EXCEPT !.state = setColumnFilters(@, filters)]
  /\ OnlyHook

HookSetGlobalFilter ==
  /\ \E filter \in { << "b" >> } :
       hook' = [hook EXCEPT !.state = setGlobalFilter(@, filter)]
  /\ OnlyHook

HookSetPagination ==
  /\ \E pagination \in { [pageIndex |-> 1, pageSize |-> hook.state.pagination.pageSize] } :
       hook' = [hook EXCEPT !.state = setPagination(@, pagination)]
  /\ OnlyHook

\* the effect after a render: fetch when the key of the parameters is not
\* the one in prevParamsRef
Effect ==
  /\ ParamsKey(hook.state) # hook.prevParamsRef
  /\ Len(hook.fetches) < MaxFetches
  /\ hook' = [fetchData(hook, hook.state) EXCEPT !.prevParamsRef = ParamsKey(hook.state)]
  /\ OnlyHook

\* the provider resolves a getList call
Resolve ==
  /\ \E i \in 1..Len(hook.fetches) :
       /\ hook.fetches[i].status = "pending"
       /\ hook' = [hook EXCEPT
            !.state = FetchResolved(@, getList(provider.items, hook.fetches[i].params,
                                               provider.searchFields)),
            !.fetches[i].status = "resolved"]
  /\ OnlyHook

\* the provider rejects a getList call
Reject ==
  /\ \E i \in 1..Len(hook.fetches) :
       /\ hook.fetches[i].status = "pending"
       /\ hook' = [hook EXCEPT !.state = FetchRejected(@, Text(<< "e" >>)),
                               !.fetches[i].status = "rejected"]
  /\ OnlyHook

NextHook ==
  \/ HookSetSorting
  \/ HookSetColumnFilters
  \/ HookSetGlobalFilter
  \/ HookSetPagination
  \/ Effect
  \/ Resolve
  \/ Reject

\* the collections a hook is mounted with
HookCollections ==
  { [affordances |-> [pagination |-> Obj([defaultPageSize |-> Num(2)])],
     fieldAffordances |-> << [key |-> "name", fa |-> <<>>] >>],
    [affordances |-> [pagination |-> Obj([defaultPageSize |-> Num(1)]),
                      defaultSort |-> Obj([field |-> Text("name"),
                                           direction |-> Str("desc")])],
     fieldAffordances |-> << [key |-> "name", fa |-> <<>>] >>] }

\* useCollection({ collection, provider }) before its first effect
useCollection(coll) ==
  [state |-> initialState(coll), prevParamsRef |-> <<>>, fetches |-> <<>>]

InitHook ==
  /\ pc = "done"
  /\ schema = <<>>
  /\ config = <<>>
  /\ trace = <<>>
  /\ collection = <<>>
  /\ output = <<>>
  /\ disk = <<>>
  /\ calls = <<>>
  /\ store = <<>>
  /\ \E initialData \in { d \in InitialData : Len(d) > 2 } :
       provider = createInMemoryProvider(initialData, "id", Undef)
  /\ \E coll \in HookCollections : hook = useCollection(coll)

SpecHook == InitHook /\ [][NextHook]_vars

----------------------------------------------------------------------------
(* Responses out of order *)

\* every getList call was answered, and the call for the parameters of the
\* state was started
AllSettled ==
  /\ hook.fetches # <<>>
  /\ \A i \in 1..Len(hook.fetches) : hook.fetches[i].status # "pending"
  /\ ParamsKey(hook.state) = hook.prevParamsRef

\* what the provider returns for the parameters of the state
LatestResult ==
  getList(provider.items, ListParamsOf(hook.state), provider.searchFields)

\* C30: when the parameters changed while a fetch was in flight, then once
\* every fetch has settled, the items and the total of the state are what the
\* provider returns for the latest parameters and loading is false, whatever
\* the order of the responses.
C30_LatestWins ==
  (AllSettled /\ hook.fetches[Len(hook.fetches)].status = "resolved")
    => /\ hook.state.items = LatestResult.data
       /\ hook.state.totalCount = LatestResult.total
       /\ ~hook.state.loading

\* two calls, the second for other parameters and answered first: the state
\* holds the items of the first call
C30_StaleItems ==
  /\ AllSettled
  /\ Len(hook.fetches) = 2
  /\ hook.fetches[1].params # hook.fetches[2].params
  /\ hook.fetches[1].status = "resolved"
  /\ hook.fetches[2].status = "resolved"
  /\ hook.state.items = getList(provider.items, hook.fetches[1].params,
                                provider.searchFields).data
  /\ hook.state.items # LatestResult.data
  /\ ~hook.state.loading

====
